---- MODULE Spec2Model ----
(***************************************************************************)
(* Verification model of the dorado read pipeline core:                    *)
(*   - AsyncTaskExecutor   (utils/concurrency/async_task_executor.cpp)     *)
(*   - PriorityTaskQueue   (utils/concurrency/detail/priority_task_queue.h)*)
(*   - pipeline nodes      (read_pipeline/*.cpp)                           *)
(* Each subsystem has its own specification (SpecExec, SpecPQ, SpecNode);  *)
(* the variables of the other subsystems stay at their initial values.     *)
(***************************************************************************)
EXTENDS Integers, Sequences, FiniteSets, TLC

\* ------------------------------------------------------------------ bounds
\* AsyncTaskExecutor: pool size N (m_num_threads) and number of send calls.
NumWorkers == 2
MaxTasks == 2

\* ------------------------------------------------------------- helpers
SeqToSet(s) == {s[i] : i \in 1..Len(s)}

\* =========================================================================
\*  AsyncTaskExecutor
\* =========================================================================
VARIABLES
    m_task_queue,   \* std::queue of WaitingTask pointers (task ids), FIFO
    m_done,         \* std::atomic<bool> m_done
    doneSeen,       \* per worker: has a relaxed load of m_done already returned true
    started,        \* WaitingTask::started latch, per task
    finished,       \* the task body has returned, per task
    runs,           \* number of times the body of a task was entered
    workerPc,       \* position of each worker thread in process_task_queue
    workerTask,     \* the WaitingTask a worker holds (0: none)
    sendPc,         \* position of the send_impl call of each user task
    joinPc,         \* position of the thread running join()
    joinIdx         \* thread_index of the sentinel loop of join()

execVars == <<m_task_queue, m_done, doneSeen, started, finished, runs, workerPc,
              workerTask, sendPc, joinPc, joinIdx>>

Workers == 1..NumWorkers
UserTasks == 1..MaxTasks
\* join() posts one sentinel task per thread_index
Sentinel(i) == MaxTasks + i
Sentinels == {Sentinel(i) : i \in 1..NumWorkers}
AllTasks == UserTasks \cup Sentinels
Priorities == {"normal", "high"}
\* The priority the sender of task t means it to have. No code of the
\* executor reads it; the labelling alternates so that a high-priority task
\* is sent after a normal-priority one.
TaskPrio(t) == IF t % 2 = 0 THEN "high" ELSE "normal"

ExecInit ==
    /\ m_task_queue = <<>>
    /\ m_done = FALSE
    /\ doneSeen = [w \in Workers |-> FALSE]
    /\ started = [t \in AllTasks |-> FALSE]
    /\ finished = [t \in AllTasks |-> FALSE]
    /\ runs = [t \in AllTasks |-> 0]
    /\ workerPc = [w \in Workers |-> "loop"]
    /\ workerTask = [w \in Workers |-> 0]
    /\ sendPc = [t \in UserTasks |-> "idle"]
    /\ joinPc = "idle"
    /\ joinIdx = 0

\* (mutant) a notify_one that wakes nobody
NotifyOne_None == UNCHANGED workerPc

\* m_message_received.notify_one(): wakes one thread blocked in the wait, if any.
NotifyOne ==
    IF \E w \in Workers : workerPc[w] = "blocked"
    THEN \E w \in Workers :
            /\ workerPc[w] = "blocked"
            /\ workerPc' = [workerPc EXCEPT ![w] = "wait"]
    ELSE UNCHANGED workerPc

\* (mutant) a WaitingTask whose latch is already signalled when it is pushed
SendPush_Signalled(t) ==
    /\ sendPc[t] = "idle"
    /\ joinPc # "returned"
    /\ \A u \in UserTasks : u < t => sendPc[u] # "idle"
    /\ m_task_queue' = Append(m_task_queue, t)
    /\ started' = [started EXCEPT ![t] = TRUE]
    /\ sendPc' = [sendPc EXCEPT ![t] = "notify"]
    /\ UNCHANGED <<m_done, doneSeen, finished, runs, workerPc, workerTask,
                   joinPc, joinIdx>>

\* ---- send_impl(task) --------------------------------------------------
\* The queue receives the task alone: send_impl has no priority argument.
\* Send calls are numbered in the order of their pushes (tasks are
\* interchangeable); a send starts only while the executor is alive.
SendPush(t) ==
    /\ sendPc[t] = "idle"
    /\ joinPc # "returned"
    /\ \A u \in UserTasks : u < t => sendPc[u] # "idle"
    /\ m_task_queue' = Append(m_task_queue, t)
    /\ sendPc' = [sendPc EXCEPT ![t] = "notify"]
    /\ UNCHANGED <<m_done, doneSeen, started, finished, runs, workerPc, workerTask,
                   joinPc, joinIdx>>

SendNotify(t) ==
    /\ sendPc[t] = "notify"
    /\ NotifyOne
    /\ sendPc' = [sendPc EXCEPT ![t] = "wait_started"]
    /\ UNCHANGED <<m_task_queue, m_done, doneSeen, started, finished, runs, workerTask,
                   joinPc, joinIdx>>

\* (mutant) send_impl that does not wait for the latch
StartedWait_NoWait(t) == TRUE

\* waiting_task->started.wait()
StartedWait(t) == started[t]

SendReturn(t) ==
    /\ sendPc[t] = "wait_started"
    /\ StartedWait(t)
    /\ sendPc' = [sendPc EXCEPT ![t] = "returned"]
    /\ UNCHANGED <<m_task_queue, m_done, doneSeen, started, finished, runs, workerPc,
                   workerTask, joinPc, joinIdx>>

\* ---- process_task_queue() / wait_on_next_task() -----------------------
\* The values a relaxed load of m_done may return to worker w: the initial
\* false until the worker has once read true (or stored it itself).
DoneLoads(w) ==
    IF ~m_done THEN {FALSE}
    ELSE IF doneSeen[w] THEN {TRUE}
    ELSE {TRUE, FALSE}

\* while (!m_done.load(relaxed))
WorkerLoop(w) ==
    /\ workerPc[w] = "loop"
    /\ \E d \in DoneLoads(w) :
          /\ workerPc' = [workerPc EXCEPT ![w] = IF d THEN "exited" ELSE "wait"]
          /\ doneSeen' = [doneSeen EXCEPT ![w] = d]
    /\ UNCHANGED <<m_task_queue, m_done, started, finished, runs, workerTask, sendPc,
                   joinPc, joinIdx>>

\* the task wait_on_next_task() removes: front() of the FIFO
NextTask(q) == Head(q)

\* (mutant) a wait_on_next_task that takes front() and leaves it queued
WorkerWait_NoPop(w) ==
    /\ workerPc[w] = "wait"
    /\ IF m_task_queue # <<>>
       THEN /\ workerTask' = [workerTask EXCEPT ![w] = NextTask(m_task_queue)]
            /\ workerPc' = [workerPc EXCEPT ![w] = "signal"]
            /\ UNCHANGED m_task_queue
       ELSE /\ workerPc' = [workerPc EXCEPT ![w] = "blocked"]
            /\ UNCHANGED <<m_task_queue, workerTask>>
    /\ UNCHANGED <<m_done, doneSeen, started, finished, runs, sendPc, joinPc, joinIdx>>

\* m_message_received.wait(lock, pred) with the lock held: pop when the
\* queue is not empty, block on the condition variable otherwise.
WorkerWait(w) ==
    /\ workerPc[w] = "wait"
    /\ IF m_task_queue # <<>>
       THEN /\ workerTask' = [workerTask EXCEPT ![w] = NextTask(m_task_queue)]
            /\ m_task_queue' = Tail(m_task_queue)
            /\ workerPc' = [workerPc EXCEPT ![w] = "signal"]
       ELSE /\ workerPc' = [workerPc EXCEPT ![w] = "blocked"]
            /\ UNCHANGED <<m_task_queue, workerTask>>
    /\ UNCHANGED <<m_done, doneSeen, started, finished, runs, sendPc, joinPc, joinIdx>>

\* a condition variable may wake spuriously; the predicate is evaluated again
WorkerSpuriousWake(w) ==
    /\ workerPc[w] = "blocked"
    /\ workerPc' = [workerPc EXCEPT ![w] = "wait"]
    /\ UNCHANGED <<m_task_queue, m_done, doneSeen, started, finished, runs, workerTask,
                   sendPc, joinPc, joinIdx>>

\* waiting_task->started.signal()
WorkerSignal(w) ==
    /\ workerPc[w] = "signal"
    /\ started' = [started EXCEPT ![workerTask[w]] = TRUE]
    /\ workerPc' = [workerPc EXCEPT ![w] = "run"]
    /\ UNCHANGED <<m_task_queue, m_done, doneSeen, finished, runs, workerTask, sendPc,
                   joinPc, joinIdx>>

\* waiting_task->task(): the body runs and returns; a sentinel's body is
\* m_done.store(true, relaxed)
WorkerRun(w) ==
    /\ workerPc[w] = "run"
    /\ runs' = [runs EXCEPT ![workerTask[w]] = @ + 1]
    /\ finished' = [finished EXCEPT ![workerTask[w]] = TRUE]
    /\ IF workerTask[w] \in Sentinels
       THEN /\ m_done' = TRUE
            /\ doneSeen' = [doneSeen EXCEPT ![w] = TRUE]
       ELSE UNCHANGED <<m_done, doneSeen>>
    /\ workerTask' = [workerTask EXCEPT ![w] = 0]
    /\ workerPc' = [workerPc EXCEPT ![w] = "loop"]
    /\ UNCHANGED <<m_task_queue, started, sendPc, joinPc, joinIdx>>

\* ---- join() -----------------------------------------------------------
JoinBegin ==
    /\ joinPc = "idle"
    /\ joinPc' = "post"
    /\ UNCHANGED <<m_task_queue, m_done, doneSeen, started, finished, runs, workerPc,
                   workerTask, sendPc, joinIdx>>

\* one iteration of the sentinel loop: emplace under the lock ...
JoinPost ==
    /\ joinPc = "post"
    /\ joinIdx < NumWorkers
    /\ m_task_queue' = Append(m_task_queue, Sentinel(joinIdx + 1))
    /\ joinPc' = "notify"
    /\ UNCHANGED <<m_done, doneSeen, started, finished, runs, workerPc, workerTask,
                   sendPc, joinIdx>>

\* ... then notify_one and ++thread_index
JoinNotify ==
    /\ joinPc = "notify"
    /\ NotifyOne
    /\ joinIdx' = joinIdx + 1
    /\ joinPc' = IF joinIdx + 1 < NumWorkers THEN "post" ELSE "joining"
    /\ UNCHANGED <<m_task_queue, m_done, doneSeen, started, finished, runs, workerTask,
                   sendPc>>

\* worker.join() for every worker: returns once all of them have exited
JoinWorkers ==
    /\ joinPc = "joining"
    /\ \A w \in Workers : workerPc[w] = "exited"
    /\ joinPc' = "returned"
    /\ UNCHANGED <<m_task_queue, m_done, doneSeen, started, finished, runs, workerPc,
                   workerTask, sendPc, joinIdx>>

\* =========================================================================
\*  PriorityTaskQueue
\*  The header declares the state and the operations; the bodies of
\*  create_task_queue, TaskQueue::push, queue_producer_task and pop are
\*  modelled from the design description of the queue (two priority
\*  classes, one sub-queue per producer, a ready list per class served
\*  least-recently-served first).
\* =========================================================================
NumProducers == 3
MaxPush == 4

VARIABLES
    pqPrio,                  \* the priority each producer passed to create_task_queue
    pqSub,                   \* ProducerQueue: the tasks each producer has queued
    m_low_producer_queue,    \* ready producers of priority normal, head is served next
    m_high_producer_queue,   \* ready producers of priority high, head is served next
    m_num_normal_prio,       \* number of queued normal-priority tasks
    m_num_high_prio,         \* number of queued high-priority tasks
    pqPushed,                \* number of tasks pushed so far (the next task's id)
    pqLast,                  \* the last operation and what it returned
    pqRound                  \* the pops of one class since an observed starting point

pqVars == <<pqPrio, pqSub, m_low_producer_queue, m_high_producer_queue,
            m_num_normal_prio, m_num_high_prio, pqPushed, pqLast, pqRound>>

Producers == 1..NumProducers
NoOp == [op |-> "none", prio |-> "none", producer |-> 0, task |-> 0,
         highBefore |-> FALSE, normalBefore |-> FALSE]
NoRound == [cls |-> "none", snap |-> <<>>, served |-> <<>>, flood |-> FALSE]

\* create_task_queue(priority) for every producer
PQInit ==
    /\ pqPrio \in [Producers -> Priorities]
    /\ pqSub = [p \in Producers |-> <<>>]
    /\ m_low_producer_queue = <<>>
    /\ m_high_producer_queue = <<>>
    /\ m_num_normal_prio = 0
    /\ m_num_high_prio = 0
    /\ pqPushed = 0
    /\ pqLast = NoOp
    /\ pqRound = NoRound

ReadyList(c) == IF c = "high" THEN m_high_producer_queue ELSE m_low_producer_queue

\* size(priority), size(), empty(priority), empty()
PQSize(c) == IF c = "high" THEN m_num_high_prio ELSE m_num_normal_prio
PQSizeAll == m_num_normal_prio + m_num_high_prio
PQEmpty(c) == PQSize(c) = 0
PQEmptyAll == PQSizeAll = 0

\* queue_producer_task: a producer whose sub-queue became non-empty joins
\* the tail of the ready list of its class
QueueProducer(ready, p, wasEmpty) == IF wasEmpty THEN Append(ready, p) ELSE ready

\* TaskQueue::push(task) of producer p
PQPush(p) ==
    /\ pqPushed < MaxPush
    /\ pqPushed' = pqPushed + 1
    /\ pqSub' = [pqSub EXCEPT ![p] = Append(@, pqPushed + 1)]
    /\ IF pqPrio[p] = "high"
       THEN /\ m_high_producer_queue' =
                  QueueProducer(m_high_producer_queue, p, pqSub[p] = <<>>)
            /\ m_num_high_prio' = m_num_high_prio + 1
            /\ UNCHANGED <<m_low_producer_queue, m_num_normal_prio>>
       ELSE /\ m_low_producer_queue' =
                  QueueProducer(m_low_producer_queue, p, pqSub[p] = <<>>)
            /\ m_num_normal_prio' = m_num_normal_prio + 1
            /\ UNCHANGED <<m_high_producer_queue, m_num_high_prio>>
    /\ pqLast' = [NoOp EXCEPT !.op = "push", !.producer = p, !.prio = pqPrio[p],
                              !.task = pqPushed + 1]
    /\ UNCHANGED <<pqPrio, pqRound>>

\* (mutant) a producer that still has work keeps its place at the head
Requeue_KeepHead(ready, p, more) == IF more THEN ready ELSE Tail(ready)

\* after a pop the served producer moves to the tail if it still has
\* pending work, and is detached otherwise
Requeue(ready, p, more) == IF more THEN Append(Tail(ready), p) ELSE Tail(ready)

\* the observation of a round of pops of class c: a pop either continues
\* the round under observation or (restart) begins a new one from the
\* ready list as it is before the pop
RoundAfter(c, p, restart) ==
    IF restart \/ pqRound.cls # c \/ Len(pqRound.served) >= Len(pqRound.snap)
    THEN [cls |-> c, snap |-> ReadyList(c), served |-> <<p>>,
          flood |-> \E q \in SeqToSet(ReadyList(c)) : Len(pqSub[q]) >= 2]
    ELSE [pqRound EXCEPT !.served = Append(@, p)]

\* the pop of the next task of class c (the class is not empty)
PopFrom(c, op) ==
    LET p == Head(ReadyList(c))
        more == Len(pqSub[p]) > 1
    IN  /\ pqSub' = [pqSub EXCEPT ![p] = Tail(@)]
        /\ IF c = "high"
           THEN /\ m_high_producer_queue' = Requeue(m_high_producer_queue, p, more)
                /\ m_num_high_prio' = m_num_high_prio - 1
                /\ UNCHANGED <<m_low_producer_queue, m_num_normal_prio>>
           ELSE /\ m_low_producer_queue' = Requeue(m_low_producer_queue, p, more)
                /\ m_num_normal_prio' = m_num_normal_prio - 1
                /\ UNCHANGED <<m_high_producer_queue, m_num_high_prio>>
        /\ pqLast' = [op |-> op, prio |-> c, producer |-> p, task |-> Head(pqSub[p]),
                      highBefore |-> m_high_producer_queue # <<>>,
                      normalBefore |-> m_low_producer_queue # <<>>]
        /\ \E restart \in BOOLEAN : pqRound' = RoundAfter(c, p, restart)
        /\ UNCHANGED <<pqPrio, pqPushed>>

\* (mutant) pop() that serves the normal class first
PopChoice_NormalFirst == IF ~PQEmpty("normal") THEN "normal" ELSE "high"

\* the class pop() serves: high whenever a high-priority task is queued
PopChoice == IF ~PQEmpty("high") THEN "high" ELSE "normal"

\* pop()
PQPop ==
    /\ ~PQEmptyAll
    /\ PopFrom(PopChoice, "pop")

\* pop(priority)
PQPopPrio(c) ==
    /\ ~PQEmpty(c)
    /\ PopFrom(c, "pop_prio")

\* =========================================================================
\*  Pipeline nodes: PolyACalculatorNode, PolyACalculator, CorrectionNode
\*  The worker loops are the nodes' own code. The MessageSink base (the
\*  bounded input queue behind push_message / get_input_message, the
\*  termination of the queue, send_message_to_sink) is modelled from the
\*  design description of the bounded work queue and of the node base.
\* =========================================================================
MaxMsgs == 2
QueueCap == 1
NumNodeWorkers == 2
\* calculator->max_tail_length(), a value of the calculator's configuration
MaxTailLength == 3

VARIABLES
    nodeKind,          \* which node class this node is
    m_work_queue,      \* the bounded input queue of the node
    queueTerminated,   \* the input queue has been terminated
    pushPc,            \* position of the push_message call of each message
    msgSent,           \* the message as its producer pushed it
    nodePc,            \* position of each worker in its thread function
    nodeMsg,           \* the message a worker took from the queue
    sink,              \* per message id: the copies the downstream sink received
    num_called,                 \* PolyACalculatorNode::num_called
    num_not_called,             \* num_not_called (PolyACalculator::not_called)
    total_tail_lengths_called,  \* total_tail_lengths_called (PolyACalculator::polyA)
    num_reads,                  \* PolyACalculator::num_reads
    termPc,            \* position of the thread running terminate_impl / restart
    sinkTerminated,    \* terminate() has been called on the downstream sink
    m_workers,         \* number of thread objects held in m_workers
    restarted,         \* restart() has been called on the node
    pushAfterRestart,  \* per message: its push was taken after a restart
    calcLocals         \* per worker: signal_info.signal_anchor and num_bases

nodeVars == <<nodeKind, m_work_queue, queueTerminated, pushPc, msgSent, nodePc, nodeMsg,
              sink, num_called, num_not_called, total_tail_lengths_called, num_reads,
              termPc, sinkTerminated, m_workers, restarted, pushAfterRestart,
              calcLocals>>
lifeVars == <<sinkTerminated, m_workers, restarted, pushAfterRestart>>
counterVars == <<num_called, num_not_called, total_tail_lengths_called, num_reads>>

NodeKinds == {"PolyACalculatorNode", "PolyACalculator", "CorrectionNode"}
MsgIds == 1..MaxMsgs
NodeWorkers == 1..NumNodeWorkers
\* the alternatives of the Message variant
MsgKinds == {"SimplexRead", "ReadPair", "CorrectionAlignments"}
\* rna_poly_tail_length of a read on which no tail was recorded
NoTail == -1
NoMsg == [id |-> 0, kind |-> "none", calc |-> FALSE, tail |-> NoTail]
\* the messages a producer may push: kind, and for a read whether its client
\* context holds a PolyTailCalculator
NewMsgs(i) ==
    {[id |-> i, kind |-> k, calc |-> c, tail |-> NoTail] :
        k \in MsgKinds, c \in BOOLEAN} \
    {[id |-> i, kind |-> k, calc |-> TRUE, tail |-> NoTail] :
        k \in MsgKinds \ {"SimplexRead"}}

\* a worker that holds no result of the calculator
NoSignalInfo == [signal_anchor |-> -1, num_bases |-> 0]

NodeInitAs(kind) ==
    /\ nodeKind = kind
    /\ m_work_queue = <<>>
    /\ queueTerminated = FALSE
    /\ pushPc = [i \in MsgIds |-> "new"]
    /\ msgSent = [i \in MsgIds |-> NoMsg]
    /\ nodePc = [w \in NodeWorkers |-> "get"]
    /\ nodeMsg = [w \in NodeWorkers |-> NoMsg]
    /\ sink = [i \in MsgIds |-> <<>>]
    /\ num_called = 0
    /\ num_not_called = 0
    /\ total_tail_lengths_called = 0
    /\ num_reads = 0
    /\ termPc = "idle"
    /\ sinkTerminated = FALSE
    /\ m_workers = NumNodeWorkers
    /\ restarted = FALSE
    /\ pushAfterRestart = [i \in MsgIds |-> FALSE]
    /\ calcLocals = [w \in NodeWorkers |-> NoSignalInfo]

\* the constructor: MessageSink(max_reads, threads), start_input_processing
NodeInit == \E kind \in NodeKinds : NodeInitAs(kind)

\* ---- the input queue: push_message / try_push ---------------------------
\* (mutant) a queue that accepts a message whatever its size
HasRoom_Unbounded(q) == TRUE

\* a push goes through while size < capacity
HasRoom(q) == Len(q) < QueueCap

\* push_message(msg): rejected once the queue is terminated, blocked while
\* the queue is full, enqueued otherwise. Messages are numbered in the order
\* in which their pushes begin.
NodePush(i) ==
    /\ pushPc[i] = "new"
    /\ \A j \in MsgIds : j < i => pushPc[j] # "new"
    /\ \E m \in NewMsgs(i) :
          /\ msgSent' = [msgSent EXCEPT ![i] = m]
          /\ IF queueTerminated
             THEN /\ pushPc' = [pushPc EXCEPT ![i] = "rejected"]
                  /\ UNCHANGED m_work_queue
             ELSE IF HasRoom(m_work_queue)
             THEN /\ pushPc' = [pushPc EXCEPT ![i] = "accepted"]
                  /\ m_work_queue' = Append(m_work_queue, m)
             ELSE /\ pushPc' = [pushPc EXCEPT ![i] = "blocked"]
                  /\ UNCHANGED m_work_queue
    /\ pushAfterRestart' = [pushAfterRestart EXCEPT ![i] = (pushPc'[i] = "accepted" /\ restarted)]
    /\ UNCHANGED <<nodeKind, queueTerminated, nodePc, nodeMsg, sink, counterVars, termPc>>
    /\ UNCHANGED <<sinkTerminated, m_workers, restarted>>
    /\ UNCHANGED calcLocals

\* a blocked push wakes: it is rejected if the queue was terminated meanwhile
\* and goes through once a pop has made room
NodePushResume(i) ==
    /\ pushPc[i] = "blocked"
    /\ IF queueTerminated
       THEN /\ pushPc' = [pushPc EXCEPT ![i] = "rejected"]
            /\ UNCHANGED m_work_queue
       ELSE /\ HasRoom(m_work_queue)
            /\ pushPc' = [pushPc EXCEPT ![i] = "accepted"]
            /\ m_work_queue' = Append(m_work_queue, msgSent[i])
    /\ pushAfterRestart' = [pushAfterRestart EXCEPT ![i] = (pushPc'[i] = "accepted" /\ restarted)]
    /\ UNCHANGED <<nodeKind, queueTerminated, msgSent, nodePc, nodeMsg, sink,
                   counterVars, termPc>>
    /\ UNCHANGED <<sinkTerminated, m_workers, restarted>>
    /\ UNCHANGED calcLocals

\* ---- the worker loops ----------------------------------------------------
\* the message variant the node consumes
Consumes(kind) ==
    IF nodeKind = "CorrectionNode" THEN kind = "CorrectionAlignments"
    ELSE kind = "SimplexRead"

\* where a worker goes with the message it took
Dispatch(m) ==
    IF ~Consumes(m.kind) THEN "forward"
    ELSE IF nodeKind = "CorrectionNode" THEN "windows"
    ELSE IF nodeKind = "PolyACalculator" THEN "calc"
    ELSE IF ~m.calc THEN "nocalc_send"
    ELSE "calc"

\* get_input_message(message) blocks on an empty queue that is not terminated
GetInputMessageReturns == m_work_queue # <<>> \/ queueTerminated

\* (mutant) a loop that ends as soon as it finds the queue empty
NodeWorkerGet_ExitOnEmpty(w) ==
    /\ nodePc[w] = "get"
    /\ IF m_work_queue # <<>>
       THEN /\ nodeMsg' = [nodeMsg EXCEPT ![w] = Head(m_work_queue)]
            /\ m_work_queue' = Tail(m_work_queue)
            /\ nodePc' = [nodePc EXCEPT ![w] = Dispatch(Head(m_work_queue))]
       ELSE /\ nodePc' = [nodePc EXCEPT ![w] = "exited"]
            /\ UNCHANGED <<m_work_queue, nodeMsg>>
    /\ UNCHANGED <<nodeKind, queueTerminated, pushPc, msgSent, sink, counterVars, termPc>>
    /\ UNCHANGED lifeVars
    /\ UNCHANGED calcLocals

\* while (get_input_message(message)): take the next message, or leave the
\* loop when get_input_message returns false (queue terminated and drained)
NodeWorkerGet(w) ==
    /\ nodePc[w] = "get"
    /\ GetInputMessageReturns
    /\ IF m_work_queue # <<>>
       THEN /\ nodeMsg' = [nodeMsg EXCEPT ![w] = Head(m_work_queue)]
            /\ m_work_queue' = Tail(m_work_queue)
            /\ nodePc' = [nodePc EXCEPT ![w] = Dispatch(Head(m_work_queue))]
       ELSE /\ nodePc' = [nodePc EXCEPT ![w] = "exited"]
            /\ UNCHANGED <<m_work_queue, nodeMsg>>
    /\ UNCHANGED <<nodeKind, queueTerminated, pushPc, msgSent, sink, counterVars, termPc>>
    /\ UNCHANGED lifeVars
    /\ UNCHANGED calcLocals

\* send_message_to_sink(msg)
SendToSink(m) == sink' = [sink EXCEPT ![m.id] = Append(@, m)]

\* (mutant) a node that counts a message before it looks at its variant
NodeWorkerForward_Counted(w) ==
    /\ nodePc[w] = "forward"
    /\ SendToSink(nodeMsg[w])
    /\ num_not_called' = num_not_called + 1
    /\ nodePc' = [nodePc EXCEPT ![w] = "get"]
    /\ nodeMsg' = [nodeMsg EXCEPT ![w] = NoMsg]
    /\ UNCHANGED <<nodeKind, m_work_queue, queueTerminated, pushPc, msgSent,
                   num_called, total_tail_lengths_called, num_reads, termPc>>
    /\ UNCHANGED lifeVars
    /\ UNCHANGED calcLocals

\* a message of a variant the node does not consume:
\* send_message_to_sink(std::move(message)); continue;
NodeWorkerForward(w) ==
    /\ nodePc[w] = "forward"
    /\ SendToSink(nodeMsg[w])
    /\ nodePc' = [nodePc EXCEPT ![w] = "get"]
    /\ nodeMsg' = [nodeMsg EXCEPT ![w] = NoMsg]
    /\ UNCHANGED <<nodeKind, m_work_queue, queueTerminated, pushPc, msgSent,
                   counterVars, termPc>>
    /\ UNCHANGED lifeVars
    /\ UNCHANGED calcLocals

\* PolyACalculatorNode, no calculator in the read's context:
\* send_message_to_sink(std::move(read)); ...
NodeWorkerNoCalcSend(w) ==
    /\ nodePc[w] = "nocalc_send"
    /\ SendToSink(nodeMsg[w])
    /\ nodePc' = [nodePc EXCEPT ![w] = "nocalc_count"]
    /\ UNCHANGED <<nodeKind, m_work_queue, queueTerminated, pushPc, msgSent, nodeMsg,
                   counterVars, termPc>>
    /\ UNCHANGED lifeVars
    /\ UNCHANGED calcLocals

\* (mutant) a node that counts a read without calculator as called
NodeWorkerNoCalcCount_Called(w) ==
    /\ nodePc[w] = "nocalc_count"
    /\ num_called' = num_called + 1
    /\ nodePc' = [nodePc EXCEPT ![w] = "get"]
    /\ nodeMsg' = [nodeMsg EXCEPT ![w] = NoMsg]
    /\ UNCHANGED <<nodeKind, m_work_queue, queueTerminated, pushPc, msgSent, sink,
                   num_not_called, total_tail_lengths_called, num_reads, termPc>>
    /\ UNCHANGED lifeVars
    /\ UNCHANGED calcLocals

\* ... num_not_called++; continue;
NodeWorkerNoCalcCount(w) ==
    /\ nodePc[w] = "nocalc_count"
    /\ num_not_called' = num_not_called + 1
    /\ nodePc' = [nodePc EXCEPT ![w] = "get"]
    /\ nodeMsg' = [nodeMsg EXCEPT ![w] = NoMsg]
    /\ UNCHANGED <<nodeKind, m_work_queue, queueTerminated, pushPc, msgSent, sink,
                   num_called, total_tail_lengths_called, num_reads, termPc>>
    /\ UNCHANGED lifeVars
    /\ UNCHANGED calcLocals

Max(a, b) == IF a >= b THEN a ELSE b

\* the results the calculator may return for a read
NumBasesResults == (-1)..MaxTailLength
\* num_bases as the node computes it: calculate_num_bases, plus
\* max(0, the split tail's calculate_num_bases) when split_tail is set
NumBases(first, split, second) == first + (IF split THEN Max(0, second) ELSE 0)

\* the signal anchors determine_signal_anchor_and_strand may return
SignalAnchors == {-1, 0}

\* (mutant) a tail length test that accepts a tail of no bases
IsCalled_ZeroAccepted(anchor, n) == anchor >= 0 /\ n >= 0 /\ n < MaxTailLength

\* signal_info.signal_anchor >= 0, and then
\* num_bases > 0 && num_bases < calculator->max_tail_length()
IsCalled(anchor, n) == anchor >= 0 /\ n > 0 /\ n < MaxTailLength

\* PolyACalculatorNode with a calculator: the counters and the read's tail
\* length, for the signal anchor and the base counts the calculator returns
\* (num_bases is computed only for a signal anchor >= 0)
NodeWorkerCalcNode(w) ==
    /\ nodePc[w] = "calc"
    /\ nodeKind = "PolyACalculatorNode"
    /\ \E anchor \in SignalAnchors, first \in NumBasesResults, split \in BOOLEAN,
          second \in {-1, 1} :
          LET n == IF anchor >= 0 THEN NumBases(first, split, second) ELSE 0 IN
          /\ calcLocals' = [calcLocals EXCEPT ![w] =
                                [signal_anchor |-> anchor, num_bases |-> n]]
          /\ IF IsCalled(anchor, n)
             THEN /\ total_tail_lengths_called' = total_tail_lengths_called + n
                  /\ num_called' = num_called + 1
                  /\ nodeMsg' = [nodeMsg EXCEPT ![w].tail = n]
                  /\ UNCHANGED num_not_called
             ELSE /\ num_not_called' = num_not_called + 1
                  /\ UNCHANGED <<total_tail_lengths_called, num_called, nodeMsg>>
    /\ nodePc' = [nodePc EXCEPT ![w] = "send"]
    /\ UNCHANGED <<nodeKind, m_work_queue, queueTerminated, pushPc, msgSent, sink,
                   num_reads, termPc>>
    /\ UNCHANGED lifeVars

\* PolyACalculator::worker_thread: base anchor, num_bases, then num_reads += 1
NodeWorkerCalcOld(w) ==
    /\ nodePc[w] = "calc"
    /\ nodeKind = "PolyACalculator"
    /\ \E anchor \in {-1, 0}, n \in NumBasesResults :
          IF anchor >= 0 /\ n >= 0 /\ n < MaxTailLength
          THEN /\ total_tail_lengths_called' = total_tail_lengths_called + n
               /\ nodeMsg' = [nodeMsg EXCEPT ![w].tail = n]
               /\ UNCHANGED num_not_called
          ELSE /\ num_not_called' = num_not_called + 1
               /\ UNCHANGED <<total_tail_lengths_called, nodeMsg>>
    /\ num_reads' = num_reads + 1
    /\ nodePc' = [nodePc EXCEPT ![w] = "send"]
    /\ UNCHANGED <<nodeKind, m_work_queue, queueTerminated, pushPc, msgSent, sink,
                   num_called, termPc>>
    /\ UNCHANGED lifeVars
    /\ UNCHANGED calcLocals

\* (mutant) a send at the end of the loop body that counts the read again
NodeWorkerSend_Recount(w) ==
    /\ nodePc[w] = "send"
    /\ SendToSink(nodeMsg[w])
    /\ num_not_called' = num_not_called + 1
    /\ calcLocals' = [calcLocals EXCEPT ![w] = NoSignalInfo]
    /\ nodePc' = [nodePc EXCEPT ![w] = "get"]
    /\ nodeMsg' = [nodeMsg EXCEPT ![w] = NoMsg]
    /\ UNCHANGED <<nodeKind, m_work_queue, queueTerminated, pushPc, msgSent,
                   num_called, total_tail_lengths_called, num_reads, termPc>>
    /\ UNCHANGED lifeVars

\* send_message_to_sink(std::move(read)) at the end of the loop body
NodeWorkerSend(w) ==
    /\ nodePc[w] = "send"
    /\ SendToSink(nodeMsg[w])
    /\ calcLocals' = [calcLocals EXCEPT ![w] = NoSignalInfo]
    /\ nodePc' = [nodePc EXCEPT ![w] = "get"]
    /\ nodeMsg' = [nodeMsg EXCEPT ![w] = NoMsg]
    /\ UNCHANGED <<nodeKind, m_work_queue, queueTerminated, pushPc, msgSent,
                   counterVars, termPc>>
    /\ UNCHANGED lifeVars

\* CorrectionNode, a CorrectionAlignments message: the windows and features
\* are computed (for the one read name the code looks for) and the loop
\* goes on; nothing is sent and nothing is counted
NodeWorkerWindows(w) ==
    /\ nodePc[w] = "windows"
    /\ nodePc' = [nodePc EXCEPT ![w] = "get"]
    /\ nodeMsg' = [nodeMsg EXCEPT ![w] = NoMsg]
    /\ UNCHANGED <<nodeKind, m_work_queue, queueTerminated, pushPc, msgSent, sink,
                   counterVars, termPc>>
    /\ UNCHANGED lifeVars
    /\ UNCHANGED calcLocals

\* ---- terminate_impl ------------------------------------------------------
\* stop_input_processing() / terminate_input_queue(): the queue is terminated
NodeTerminate ==
    /\ termPc = "idle"
    /\ queueTerminated' = TRUE
    /\ termPc' = "joining"
    /\ UNCHANGED <<nodeKind, m_work_queue, pushPc, msgSent, nodePc, nodeMsg, sink,
                   counterVars>>
    /\ UNCHANGED lifeVars
    /\ UNCHANGED calcLocals

\* (mutant) a join that keeps the joined thread objects in m_workers
NodeJoin_KeepWorkers ==
    /\ termPc = "joining"
    /\ \A w \in NodeWorkers : nodePc[w] = "exited"
    /\ termPc' = IF nodeKind = "PolyACalculator" THEN "log" ELSE "joined"
    /\ UNCHANGED <<nodeKind, m_work_queue, queueTerminated, pushPc, msgSent, nodePc,
                   nodeMsg, sink, counterVars>>
    /\ UNCHANGED lifeVars
    /\ UNCHANGED calcLocals

\* ... the workers are joined and m_workers is cleared; PolyACalculator's
\* terminate_impl goes on to log its totals, the other nodes' is complete
NodeJoin ==
    /\ termPc = "joining"
    /\ \A w \in NodeWorkers : nodePc[w] = "exited"
    /\ m_workers' = 0
    /\ termPc' = IF nodeKind = "PolyACalculator" THEN "log" ELSE "joined"
    /\ UNCHANGED <<nodeKind, m_work_queue, queueTerminated, pushPc, msgSent, nodePc,
                   nodeMsg, sink, counterVars>>
    /\ UNCHANGED <<sinkTerminated, restarted, pushAfterRestart>>
    /\ UNCHANGED calcLocals

\* PolyACalculator::terminate_impl logs polyA.load() / num_reads.load(): an
\* integer division whose behaviour is undefined when no read was processed
\* (the process is killed by the fault, or the division yields some value)
NodeTerminateLog ==
    /\ termPc = "log"
    /\ \E outcome \in (IF num_reads = 0 THEN {"joined", "faulted"} ELSE {"joined"}) :
          termPc' = outcome
    /\ UNCHANGED <<nodeKind, m_work_queue, queueTerminated, pushPc, msgSent, nodePc,
                   nodeMsg, sink, counterVars>>
    /\ UNCHANGED lifeVars
    /\ UNCHANGED calcLocals

\* ---- restart -------------------------------------------------------------
\* PolyACalculator::restart, first call: restart_input_queue()
NodeRestartQueue ==
    /\ nodeKind = "PolyACalculator"
    /\ termPc = "joined"
    /\ queueTerminated' = FALSE
    /\ restarted' = TRUE
    /\ termPc' = "restarting"
    /\ UNCHANGED <<nodeKind, m_work_queue, pushPc, msgSent, nodePc, nodeMsg, sink,
                   counterVars>>
    /\ UNCHANGED <<sinkTerminated, m_workers, pushAfterRestart>>
    /\ UNCHANGED calcLocals

\* PolyACalculator::restart, second call: start_threads() pushes
\* m_num_worker_threads new threads onto m_workers, each in worker_thread
NodeStartThreads ==
    /\ termPc = "restarting"
    /\ m_workers' = m_workers + NumNodeWorkers
    /\ nodePc' = [w \in NodeWorkers |-> "get"]
    /\ termPc' = "idle"
    /\ UNCHANGED <<nodeKind, m_work_queue, queueTerminated, pushPc, msgSent, nodeMsg,
                   sink, counterVars>>
    /\ UNCHANGED <<sinkTerminated, restarted, pushAfterRestart>>
    /\ UNCHANGED calcLocals

\* =========================================================================
\*  HtsFile: sorted-BAM output through a record buffer and temp files
\* =========================================================================
\* number of bits that stands for each 32-bit half of the 64-bit sorting key
HalfBits == 4
\* m_bam_buffer.size()
BufSize == 200
\* number of write calls
MaxWrites == 4
\* number of finalise calls
MaxFinalise == 2
\* sizeof(bam1_t)
SizeofBam1 == 80
\* alignment of the entries of the record buffer
BufferAlign == 8

VARIABLES
    m_finalise_is_noop,       \* FALSE for sorted BAM output
    m_finalised,
    m_file,                   \* name of the file m_file has open, or NoName
    m_header,                 \* "none", or whether the header has references
    m_bam_buffer,             \* offset |-> the record copied to that offset
    m_current_buffer_offset,
    m_buffer_map,             \* multimap sorting key -> offset, in key order
    m_temp_files,             \* names of the temp files written so far
    m_num_records,
    disk,                     \* file name |-> whether it exists, its records
    indexBuilt,               \* sam_index_build has built the index
    written,                  \* the records whose write call has returned
    finaliseCalls,            \* number of finalise calls so far
    finalisePath,             \* the return path the last finalise call took
    progress,                 \* what progress_callback received in that call
    callerSees                \* how the last write or finalise call ended

htsObject == <<m_finalise_is_noop, m_finalised, m_file, m_header, m_bam_buffer,
               m_current_buffer_offset, m_buffer_map, m_temp_files, m_num_records>>
htsVars == <<htsObject, disk, indexBuilt, written, finaliseCalls, finalisePath,
             progress, callerSees>>

\* ---- files ---------------------------------------------------------------
\* m_filename
OutputFile == <<"out", 0>>
\* (mutant) a temp file name that ignores the index
TempName_Zero(file_index) == <<"tmp", 0>>
\* m_filename + "." + std::to_string(file_index) + ".tmp"
TempName(file_index) == <<"tmp", file_index>>
NoName == <<"none", 0>>
FileNames == {OutputFile} \cup {TempName(k) : k \in 0..(MaxWrites - 1)}
NoFile == [exists |-> FALSE, records |-> <<>>]
NewFile(recs) == [exists |-> TRUE, records |-> recs]

\* ---- records and the sorting key ------------------------------------------
NoRecord == [id |-> 0, tid |-> 0, pos |-> 0, l_data |-> 0]
\* core.tid, core.pos and l_data of the records passed to write: mapped
\* records (one of a size that is no multiple of the alignment), an unmapped
\* record (tid -1, pos -1), and a record that is larger than the whole buffer
RecordShapes == {<<0, 1, 8>>, <<1, 0, 3>>, <<-1, -1, 8>>, <<0, 0, 130>>}

RECURSIVE Pow2(_)
Pow2(n) == IF n = 0 THEN 1 ELSE 2 * Pow2(n - 1)

\* static_cast<uint64_t>(x), for a key of 2 * HalfBits bits
ToUnsigned(x) == x % Pow2(2 * HalfBits)

RECURSIVE BitOr(_, _, _)
BitOr(a, b, bits) ==
    IF bits = 0 THEN 0
    ELSE (IF a % 2 = 1 \/ b % 2 = 1 THEN 1 ELSE 0)
         + 2 * BitOr(a \div 2, b \div 2, bits - 1)

\* (mutant) a key without the shift of the tid
calculate_sorting_key_NoShift(record) ==
    BitOr(ToUnsigned(record.tid), ToUnsigned(record.pos), 2 * HalfBits)

\* (static_cast<uint64_t>(record->core.tid) << 32) | record->core.pos
calculate_sorting_key(record) ==
    BitOr((ToUnsigned(record.tid) * Pow2(HalfBits)) % Pow2(2 * HalfBits),
          ToUnsigned(record.pos), 2 * HalfBits)

\* ---- m_buffer_map ---------------------------------------------------------
\* (mutant) a map that keeps one entry per sorting key
InsertEntry_Unique(map, entry) ==
    LET lower == SelectSeq(map, LAMBDA x : x.key < entry.key)
        upper == SelectSeq(map, LAMBDA x : x.key > entry.key)
    IN  lower \o <<entry>> \o upper

\* (mutant) an insert that puts the entry before the entries of equal key
InsertEntry_Front(map, entry) ==
    LET lower == SelectSeq(map, LAMBDA x : x.key < entry.key)
        upper == SelectSeq(map, LAMBDA x : x.key >= entry.key)
    IN  lower \o <<entry>> \o upper

\* std::multimap::insert: after the entries whose key is not greater
InsertEntry(map, entry) ==
    LET lower == SelectSeq(map, LAMBDA x : x.key <= entry.key)
        upper == SelectSeq(map, LAMBDA x : x.key > entry.key)
    IN  lower \o <<entry>> \o upper

\* the record an entry of the map stands for: last_record for offset -1,
\* otherwise the record at that offset of the buffer
EntryRecord(entry, buffer, last_record) ==
    IF entry.offset = -1 THEN last_record ELSE buffer[entry.offset]

\* ---- flush_temp_file ------------------------------------------------------
\* the steps of flush_temp_file at which writing the temp file may fail:
\* 0 is the header, k the k-th record, -1 stands for no failure
FlushFailures(map, last_record) ==
    (-1)..(Len(map) + (IF last_record = NoRecord THEN 0 ELSE 1))

\* (mutant) a flush that writes a temp file whatever the buffer holds
NothingToFlush_Never(offset, last_record) == FALSE

\* m_current_buffer_offset == 0 && !last_record
NothingToFlush(offset, last_record) == offset = 0 /\ last_record = NoRecord

\* flush_temp_file(last_record): nothing to do for an empty buffer without
\* last_record; otherwise a new temp file receives the buffered records and
\* last_record in the order of the map. A failure throws and leaves the
\* file as far as it was written, open, and the buffer as it was.
flush_temp_file(temp_files, dsk, map, buffer, offset, last_record, failAt) ==
    IF NothingToFlush(offset, last_record)
    THEN [threw |-> FALSE, temp_files |-> temp_files, disk |-> dsk,
          file |-> NoName, map |-> map, buffer |-> buffer, offset |-> offset]
    ELSE LET entries == IF last_record = NoRecord THEN map
                        ELSE InsertEntry(map, [key |-> calculate_sorting_key(last_record),
                                               offset |-> -1])
             file_index == Len(temp_files)
             tempfilename == TempName(file_index)
             recs == [k \in 1..Len(entries) |->
                         EntryRecord(entries[k], buffer, last_record)]
         IN  IF failAt = -1
             THEN [threw |-> FALSE,
                   temp_files |-> Append(temp_files, tempfilename),
                   disk |-> [dsk EXCEPT ![tempfilename] = NewFile(recs)],
                   file |-> NoName, map |-> <<>>, buffer |-> <<>>, offset |-> 0]
             ELSE [threw |-> TRUE,
                   temp_files |-> Append(temp_files, tempfilename),
                   disk |-> [dsk EXCEPT ![tempfilename] =
                                NewFile(SubSeq(recs, 1, Max(0, failAt - 1)))],
                   file |-> tempfilename, map |-> entries, buffer |-> buffer,
                   offset |-> offset]

\* ---- merge_temp_files -----------------------------------------------------
NoFailure == [step |-> "none", at |-> 0]
\* the steps at which merge_temp_files returns false: per temp file enabling
\* threading, comparing the header, reading the first record; for the output
\* file enabling threading and writing the header; per record writing it and
\* reading the next record of its file
MergeFailures(temp_files, dsk) ==
    LET total == Len(temp_files) IN
    {NoFailure}
    \cup {[step |-> s, at |-> i] :
             s \in {"bgzf_mt", "first_record"}, i \in 1..total}
    \cup {[step |-> "header", at |-> i] : i \in 2..total}
    \cup {[step |-> s, at |-> 0] : s \in {"out_bgzf_mt", "out_header"}}
    \cup {[step |-> s, at |-> k] :
             s \in {"write", "read_next"}, k \in 1..MaxWrites}

\* (mutant) a merge that takes the top record of the first unfinished file
BestIndex_First(tops, files) ==
    CHOOSE i \in 1..Len(files) :
        /\ tops[i] <= Len(files[i])
        /\ \A j \in 1..(i - 1) : tops[j] > Len(files[j])

\* the file whose top record has the smallest sorting key, the first such
\* file among equals (score < best_score); 0 for best_index == -1
BestIndex(tops, files) ==
    LET open == {i \in 1..Len(files) : tops[i] <= Len(files[i])}
        score(i) == calculate_sorting_key(files[i][tops[i]])
    IN  IF open = {} THEN 0
        ELSE CHOOSE i \in open :
                \A j \in open : score(i) < score(j) \/ (score(i) = score(j) /\ i <= j)

\* while (files_done < m_temp_files.size()): write the best top record, load
\* the next record of its file. Gives whether the loop ran to its end, and
\* the records written to the output file.
RECURSIVE MergeLoop(_, _, _, _, _)
MergeLoop(tops, files, out, processed_records, fail) ==
    IF \A i \in 1..Len(files) : tops[i] > Len(files[i])
    THEN [ok |-> TRUE, out |-> out]
    ELSE LET best_index == BestIndex(tops, files) IN
         IF best_index = 0 THEN [ok |-> FALSE, out |-> out]
         ELSE IF fail = [step |-> "write", at |-> processed_records + 1]
         THEN [ok |-> FALSE, out |-> out]
         ELSE LET written_out == Append(out, files[best_index][tops[best_index]]) IN
              IF fail = [step |-> "read_next", at |-> processed_records + 1]
              THEN [ok |-> FALSE, out |-> written_out]
              ELSE MergeLoop([tops EXCEPT ![best_index] = @ + 1], files, written_out,
                             processed_records + 1, fail)

\* (mutant) a merge that removes the temp files whatever its result
RemoveTempFiles_Always(ok, temp_files, dsk) ==
    [n \in FileNames |-> IF n \in SeqToSet(temp_files) THEN NoFile ELSE dsk[n]]

\* the temp files are removed at the end of a merge that has not failed
RemoveTempFiles(ok, temp_files, dsk) ==
    IF ok
    THEN [n \in FileNames |-> IF n \in SeqToSet(temp_files) THEN NoFile ELSE dsk[n]]
    ELSE dsk

\* merge_temp_files: open every temp file and read its first record (a temp
\* file without record fails there), create the output file, merge, remove
\* the temp files. Gives the return value, the files afterwards, and the
\* number of records after which update_progress was called.
merge_temp_files(temp_files, dsk, fail) ==
    LET files == [i \in 1..Len(temp_files) |-> dsk[temp_files[i]].records]
        opened == /\ fail.step \notin {"bgzf_mt", "header", "first_record"}
                  /\ \A i \in 1..Len(files) : Len(files[i]) > 0
    IN  IF ~opened THEN [ok |-> FALSE, disk |-> dsk, processed_records |-> 0]
        ELSE IF fail.step \in {"out_bgzf_mt", "out_header"}
        THEN [ok |-> FALSE, disk |-> [dsk EXCEPT ![OutputFile] = NewFile(<<>>)],
              processed_records |-> 0]
        ELSE LET loop == MergeLoop([i \in 1..Len(files) |-> 1], files, <<>>, 0, fail)
                 merged == [dsk EXCEPT ![OutputFile] = NewFile(loop.out)]
             IN  [ok |-> loop.ok, disk |-> RemoveTempFiles(loop.ok, temp_files, merged),
                  processed_records |-> Len(loop.out)]

\* ---- the constructor ------------------------------------------------------
\* HtsFile(filename, mode, threads): sorted BAM output opens no file; every
\* other mode opens the output file and makes finalise a no-op
HtsInitAs(noop) ==
    /\ m_finalise_is_noop = noop
    /\ m_finalised = FALSE
    /\ m_file = IF noop THEN OutputFile ELSE NoName
    /\ m_header = "none"
    /\ m_bam_buffer = <<>>
    /\ m_current_buffer_offset = 0
    /\ m_buffer_map = <<>>
    /\ m_temp_files = <<>>
    /\ m_num_records = 0
    /\ disk = [n \in FileNames |->
                  IF noop /\ n = OutputFile THEN NewFile(<<>>) ELSE NoFile]
    /\ indexBuilt = FALSE
    /\ written = <<>>
    /\ finaliseCalls = 0
    /\ finalisePath = "none"
    /\ progress = <<>>
    /\ callerSees = "none"

HtsInit == \E noop \in BOOLEAN : HtsInitAs(noop)

\* a call that threw out of write unwinds its caller; no further call is
\* made on the object
ObjectInUse == ~(callerSees = "exception" /\ ~m_finalised)

\* ---- set_header -----------------------------------------------------------
HtsSetHeader(mapped) ==
    /\ ObjectInUse
    /\ ~m_finalised
    /\ m_header = "none"
    /\ m_header' = IF mapped THEN "mapped" ELSE "unmapped"
    /\ callerSees' = "returned"
    /\ UNCHANGED <<m_finalise_is_noop, m_finalised, m_file, m_bam_buffer,
                   m_current_buffer_offset, m_buffer_map, m_temp_files, m_num_records,
                   disk, indexBuilt, written, finaliseCalls, finalisePath, progress>>

\* ---- write / cache_record -------------------------------------------------
\* !(m_current_buffer_offset + bytes_required > m_bam_buffer.size())
RecordFits(offset, record) == ~(offset + (SizeofBam1 + record.l_data) > BufSize)

\* (mutant) the offset behind a record as it is
NextOffset_Unaligned(offset, record) == offset + SizeofBam1 + record.l_data

\* the offset behind a record, rounded up to the alignment of the entries
NextOffset(offset, record) ==
    (((offset + SizeofBam1 + record.l_data) + (BufferAlign - 1)) \div BufferAlign)
        * BufferAlign

\* write(record): ++m_num_records; to the open file if there is one,
\* otherwise cache_record: into the buffer if the record fits, else the
\* buffer and the record are flushed to a new temp file
HtsWrite(shape) ==
    /\ ObjectInUse
    /\ ~m_finalised
    /\ m_header # "none"
    /\ m_num_records < MaxWrites
    /\ LET record == [id |-> m_num_records + 1, tid |-> shape[1], pos |-> shape[2],
                      l_data |-> shape[3]]
       IN
       /\ m_num_records' = m_num_records + 1
       /\ IF m_file # NoName
          THEN /\ disk' = [disk EXCEPT ![m_file].records = Append(@, record)]
               /\ written' = Append(written, record)
               /\ callerSees' = "returned"
               /\ UNCHANGED <<m_file, m_bam_buffer, m_current_buffer_offset,
                              m_buffer_map, m_temp_files>>
          ELSE IF RecordFits(m_current_buffer_offset, record)
          THEN /\ m_buffer_map' =
                     InsertEntry(m_buffer_map,
                                 [key |-> calculate_sorting_key(record),
                                  offset |-> m_current_buffer_offset])
               /\ m_bam_buffer' =
                     [o \in DOMAIN m_bam_buffer \cup {m_current_buffer_offset} |->
                         IF o = m_current_buffer_offset THEN record
                         ELSE m_bam_buffer[o]]
               /\ m_current_buffer_offset' = NextOffset(m_current_buffer_offset, record)
               /\ written' = Append(written, record)
               /\ callerSees' = "returned"
               /\ UNCHANGED <<m_file, m_temp_files, disk>>
          ELSE \E failAt \in FlushFailures(m_buffer_map, record) :
                 \E flushed \in {flush_temp_file(m_temp_files, disk, m_buffer_map,
                                                m_bam_buffer, m_current_buffer_offset,
                                                record, failAt)} :
                     /\ m_temp_files' = flushed.temp_files
                     /\ disk' = flushed.disk
                     /\ m_file' = flushed.file
                     /\ m_buffer_map' = flushed.map
                     /\ m_bam_buffer' = flushed.buffer
                     /\ m_current_buffer_offset' = flushed.offset
                     /\ written' = IF flushed.threw THEN written
                                   ELSE Append(written, record)
                     /\ callerSees' = IF flushed.threw THEN "exception" ELSE "returned"
    /\ UNCHANGED <<m_finalise_is_noop, m_finalised, m_header, indexBuilt,
                   finaliseCalls, finalisePath, progress>>

\* ---- finalise -------------------------------------------------------------
\* constexpr size_t percent_start_merging, percent_start_indexing
percent_start_merging == 5
percent_start_indexing == 50

\* (mutant) an updater that counts down from the start of indexing
update_progress_Down(value, total_records) ==
    percent_start_indexing
        - ((percent_start_indexing - percent_start_merging) * value) \div total_records

\* ProgressUpdater(progress_callback, percent_start_merging, m_num_records,
\* percent_start_indexing)(value): the share of the merged records, mapped
\* into the merging range
update_progress(value, total_records) ==
    percent_start_merging
        + ((percent_start_indexing - percent_start_merging) * value) \div total_records

\* what progress_callback receives between the 0 at entry and the 100 of the
\* PostCondition: the start of merging and one value per merged record when
\* there is a merge, the start of indexing when a mapped file is indexed
ProgressBetween(merging, processed_records, total_records, indexing) ==
    (IF merging
     THEN <<percent_start_merging>>
          \o [k \in 1..processed_records |-> update_progress(k, total_records)]
     ELSE <<>>)
    \o (IF indexing THEN <<percent_start_indexing>> ELSE <<>>)

\* progress_callback(0) ... on_return: progress_callback(100)
ProgressOfCall(between) == <<0>> \o between \o <<100>>

\* (mutant) a finalise that does not remember that it has run
AlreadyFinalised_Never(finalised) == FALSE

\* std::exchange(m_finalised, true)
AlreadyFinalised(finalised) == finalised

\* (mutant) a rename that leaves the temp file where it was
RenameFile_Copy(dsk, from, to) == [dsk EXCEPT ![to] = dsk[from]]

\* std::filesystem::rename(from, to)
RenameFile(dsk, from, to) == [dsk EXCEPT ![to] = dsk[from], ![from] = NoFile]

\* finalise(progress_callback): a second call returns at once; no-op mode
\* closes the header and the file; sorted mode flushes the buffer, then
\* renames the only temp file or merges the temp files, then builds the
\* index of a mapped file (a failure to build it is logged)
HtsFinalise ==
    /\ ObjectInUse
    /\ finaliseCalls < MaxFinalise
    /\ finaliseCalls' = finaliseCalls + 1
    /\ m_finalised' = TRUE
    /\ IF AlreadyFinalised(m_finalised)
       THEN /\ finalisePath' = "second_call"
            /\ progress' = ProgressOfCall(<<>>)
            /\ callerSees' = "returned"
            /\ UNCHANGED <<m_file, m_header, m_bam_buffer, m_current_buffer_offset,
                           m_buffer_map, m_temp_files, disk, indexBuilt>>
       ELSE IF m_finalise_is_noop
       THEN /\ m_header' = "none"
            /\ m_file' = NoName
            /\ finalisePath' = "noop"
            /\ progress' = ProgressOfCall(<<>>)
            /\ callerSees' = "returned"
            /\ UNCHANGED <<m_bam_buffer, m_current_buffer_offset, m_buffer_map,
                           m_temp_files, disk, indexBuilt>>
       ELSE \E failAt \in FlushFailures(m_buffer_map, NoRecord) :
              \E flushed \in {flush_temp_file(m_temp_files, disk, m_buffer_map,
                                             m_bam_buffer, m_current_buffer_offset,
                                             NoRecord, failAt)} :
              LET file_is_mapped == m_header = "mapped"
              IN
              /\ m_bam_buffer' = flushed.buffer
              /\ m_buffer_map' = flushed.map
              /\ m_current_buffer_offset' = flushed.offset
              /\ m_file' = flushed.file
              /\ IF flushed.threw
                 THEN /\ m_temp_files' = flushed.temp_files
                      /\ disk' = flushed.disk
                      /\ finalisePath' = "flush_failed"
                      /\ progress' = ProgressOfCall(<<>>)
                      /\ callerSees' = "exception"
                      /\ UNCHANGED <<m_header, indexBuilt>>
                 ELSE /\ m_header' = "none"
                      /\ callerSees' = "returned"
                      /\ IF flushed.temp_files = <<>>
                         THEN /\ finalisePath' = "no_temp_files"
                              /\ progress' = ProgressOfCall(<<>>)
                              /\ m_temp_files' = flushed.temp_files
                              /\ disk' = flushed.disk
                              /\ UNCHANGED indexBuilt
                         ELSE IF Len(flushed.temp_files) = 1
                         THEN /\ disk' = RenameFile(flushed.disk, flushed.temp_files[1],
                                                    OutputFile)
                              /\ m_temp_files' = <<>>
                              /\ finalisePath' = "renamed"
                              /\ progress' = ProgressOfCall(
                                    ProgressBetween(FALSE, 0, m_num_records,
                                                    file_is_mapped))
                              /\ \E built \in BOOLEAN :
                                    indexBuilt' = (file_is_mapped /\ built)
                         ELSE \E fail \in MergeFailures(flushed.temp_files, flushed.disk) :
                                \E merge \in {merge_temp_files(flushed.temp_files,
                                                              flushed.disk, fail)} :
                                    /\ m_temp_files' = flushed.temp_files
                                    /\ disk' = merge.disk
                                    /\ progress' = ProgressOfCall(
                                          ProgressBetween(TRUE, merge.processed_records,
                                                          m_num_records,
                                                          merge.ok /\ file_is_mapped))
                                    /\ IF merge.ok
                                       THEN /\ finalisePath' = "merged"
                                            /\ \E built \in BOOLEAN :
                                                  indexBuilt' = (file_is_mapped /\ built)
                                       ELSE /\ finalisePath' = "merge_failed"
                                            /\ UNCHANGED indexBuilt
    /\ UNCHANGED <<m_finalise_is_noop, m_num_records, written>>

\* =========================================================================
\*  PolyACalculatorNode: the tail-length statistics
\*  The accesses of input_thread_fn and of sample_stats to the counters and
\*  to the tail_length_counts histogram, one step per access.
\* =========================================================================
VARIABLES
    logDebug,            \* spdlog::get_level() <= spdlog::level::debug
    m_mutex,             \* PolyACalculatorNode::m_mutex: the worker holding it, 0: free
    tail_length_counts,  \* std::map<int, int>, tail length |-> count (0: no entry)
    recPc,               \* position of each worker in lines 48-57 of input_thread_fn
    recNumBases,         \* num_bases of the read a worker is recording
    recorded,            \* number of reads whose tail was recorded so far
    statsPc,             \* position of the thread inside sample_stats
    statsIt,             \* the key the iteration over tail_length_counts is at
    statsRaced,          \* a worker wrote the map while the current entry was read
    stats                \* the NamedStats built so far

statsVars == <<logDebug, m_mutex, tail_length_counts, recPc, recNumBases, recorded,
               statsPc, statsIt, statsRaced, stats>>

\* the node state the recording steps leave alone
nodeQueueVars == <<nodeKind, m_work_queue, queueTerminated, pushPc, msgSent, nodePc,
                   nodeMsg, sink, num_not_called, num_reads, termPc, lifeVars,
                   calcLocals>>

\* the tail lengths that are recorded: 0 < num_bases < max_tail_length
TailLengths == {n \in 0..MaxTailLength : IsCalled(0, n)}
NoStats == [reads_not_estimated |-> 0, reads_estimated |-> 0, average_tail_length |-> 0,
            pt |-> [n \in TailLengths |-> 0]]
\* what a read of a map entry may yield while another thread modifies the map
UndefinedCounts == 0..(MaxMsgs + 1)

StatsInitAs(debug) ==
    /\ logDebug = debug
    /\ m_mutex = 0
    /\ tail_length_counts = [n \in TailLengths |-> 0]
    /\ recPc = [w \in NodeWorkers |-> "idle"]
    /\ recNumBases = [w \in NodeWorkers |-> 0]
    /\ recorded = 0
    /\ statsPc = "idle"
    /\ statsIt = 0
    /\ statsRaced = FALSE
    /\ stats = NoStats

StatsInit == \E debug \in BOOLEAN : StatsInitAs(debug)

\* ---- input_thread_fn, lines 48-57 -------------------------------------
\* total_tail_lengths_called += num_bases; ++num_called
RecCount(w) ==
    /\ recPc[w] = "idle"
    /\ recorded < MaxMsgs
    /\ \E n \in TailLengths :
          /\ recNumBases' = [recNumBases EXCEPT ![w] = n]
          /\ total_tail_lengths_called' = total_tail_lengths_called + n
    /\ num_called' = num_called + 1
    /\ recorded' = recorded + 1
    /\ recPc' = [recPc EXCEPT ![w] = "level"]
    /\ UNCHANGED <<logDebug, m_mutex, tail_length_counts, statsPc, statsIt, statsRaced,
                   stats>>
    /\ UNCHANGED nodeQueueVars

\* if (spdlog::get_level() <= spdlog::level::debug)
RecLevel(w) ==
    /\ recPc[w] = "level"
    /\ recPc' = [recPc EXCEPT ![w] = IF logDebug THEN "lock" ELSE "idle"]
    /\ UNCHANGED <<logDebug, m_mutex, tail_length_counts, recNumBases, recorded, statsPc,
                   statsIt, statsRaced, stats>>
    /\ UNCHANGED nodeVars

\* std::lock_guard<std::mutex> lock(m_mutex)
RecLock(w) ==
    /\ recPc[w] = "lock"
    /\ m_mutex = 0
    /\ m_mutex' = w
    /\ recPc' = [recPc EXCEPT ![w] = "write"]
    /\ UNCHANGED <<logDebug, tail_length_counts, recNumBases, recorded, statsPc, statsIt,
                   statsRaced, stats>>
    /\ UNCHANGED nodeVars

\* tail_length_counts[num_bases]++ begins: the map is being modified
RecWriteBegin(w) ==
    /\ recPc[w] = "write"
    /\ recPc' = [recPc EXCEPT ![w] = "writing"]
    /\ statsRaced' = (statsRaced \/ statsPc = "reading")
    /\ UNCHANGED <<logDebug, m_mutex, tail_length_counts, recNumBases, recorded, statsPc,
                   statsIt, stats>>
    /\ UNCHANGED nodeVars

\* ... and is complete
RecWriteEnd(w) ==
    /\ recPc[w] = "writing"
    /\ tail_length_counts' = [tail_length_counts EXCEPT ![recNumBases[w]] = @ + 1]
    /\ recPc' = [recPc EXCEPT ![w] = "unlock"]
    /\ UNCHANGED <<logDebug, m_mutex, recNumBases, recorded, statsPc, statsIt, statsRaced,
                   stats>>
    /\ UNCHANGED nodeVars

\* the lock_guard goes out of scope
RecUnlock(w) ==
    /\ recPc[w] = "unlock"
    /\ m_mutex' = 0
    /\ recPc' = [recPc EXCEPT ![w] = "idle"]
    /\ UNCHANGED <<logDebug, tail_length_counts, recNumBases, recorded, statsPc, statsIt,
                   statsRaced, stats>>
    /\ UNCHANGED nodeVars

\* ---- sample_stats -----------------------------------------------------
\* the loads of num_not_called, num_called and total_tail_lengths_called
SampleCounters ==
    /\ statsPc = "idle"
    /\ stats' = [NoStats EXCEPT
                    !.reads_not_estimated = num_not_called,
                    !.reads_estimated = num_called,
                    !.average_tail_length =
                        IF num_called > 0
                        THEN total_tail_lengths_called \div num_called ELSE 0]
    /\ statsPc' = IF logDebug THEN "iterate" ELSE "returned"
    /\ statsIt' = 0
    /\ statsRaced' = FALSE
    /\ UNCHANGED <<logDebug, m_mutex, tail_length_counts, recPc, recNumBases, recorded>>
    /\ UNCHANGED nodeVars

\* the keys of the map the iteration has still to visit
KeysAfter(k) == {n \in TailLengths : n > k /\ tail_length_counts[n] > 0}
Min(S) == CHOOSE x \in S : \A y \in S : x <= y

\* for (const auto& [len, count] : tail_length_counts): the iterator moves
\* to the next entry and the read of it begins, or the loop ends; m_mutex is
\* not taken
SampleReadBegin ==
    /\ statsPc = "iterate"
    /\ IF KeysAfter(statsIt) = {}
       THEN /\ statsPc' = "returned"
            /\ UNCHANGED <<statsIt, statsRaced>>
       ELSE /\ statsPc' = "reading"
            /\ statsIt' = Min(KeysAfter(statsIt))
            /\ statsRaced' = (\E w \in NodeWorkers : recPc[w] = "writing")
    /\ UNCHANGED <<logDebug, m_mutex, tail_length_counts, recPc, recNumBases, recorded,
                   stats>>
    /\ UNCHANGED nodeVars

\* stats["pt." + len] = count: the count read is the entry's unless the map
\* was modified during the read; then the read is undefined, it yields any
\* count or the thread faults
SampleReadEnd ==
    /\ statsPc = "reading"
    /\ IF statsRaced
       THEN \/ /\ \E c \in UndefinedCounts : stats' = [stats EXCEPT !.pt[statsIt] = c]
               /\ statsPc' = "iterate"
            \/ /\ statsPc' = "faulted"
               /\ UNCHANGED stats
       ELSE /\ stats' = [stats EXCEPT !.pt[statsIt] = tail_length_counts[statsIt]]
            /\ statsPc' = "iterate"
    /\ UNCHANGED <<logDebug, m_mutex, tail_length_counts, recPc, recNumBases, recorded,
                   statsIt, statsRaced>>
    /\ UNCHANGED nodeVars

\* return stats; the caller samples again later
SampleReturn ==
    /\ statsPc = "returned"
    /\ statsPc' = "idle"
    /\ UNCHANGED <<logDebug, m_mutex, tail_length_counts, recPc, recNumBases, recorded,
                   statsIt, statsRaced, stats>>
    /\ UNCHANGED nodeVars

\* =========================================================================
\*  ModBaseCallerNode
\*  One worker thread takes reads from the queue of the ReadSink base,
\*  runs the modified-base model on each and pushes it to the sink. The
\*  ReadSink base (push_read, terminate, m_reads, m_terminate) is declared
\*  in a header: a bounded queue filled under m_cv_mutex and a flag.
\* =========================================================================
MaxModReads == 2

VARIABLES
    m_reads,          \* ReadSink::m_reads, the queued reads
    m_terminate,      \* ReadSink::m_terminate
    modPushed,        \* number of reads pushed to the node so far
    modPc,            \* position of the worker thread in worker_thread
    modRead,          \* the read the worker has popped
    block_stride,     \* the local block_stride of the worker
    runnerCalls,      \* ids of the reads m_model_runner->run was called on
    modSink,          \* the reads m_sink.push_read received, in order
    sinkTerminateCalls, \* number of m_sink.terminate() calls
    dtorPc            \* position of the thread inside ~ModBaseCallerNode

modVars == <<m_reads, m_terminate, modPushed, modPc, modRead, block_stride,
             runnerCalls, modSink, sinkTerminateCalls, dtorPc>>

NoRead == [id |-> 0, called_chunks |-> 0, raw_chunk_size |-> 0, moves |-> 0,
           base_mod_probs |-> "none", base_mod_info |-> "none"]
\* the reads a producer may push: called_chunks is the number of called
\* chunks, moves the size of the moves of the first one
NewReads(id) ==
    {[NoRead EXCEPT !.id = id, !.called_chunks = c, !.raw_chunk_size = 2 * c,
                    !.moves = m] : c \in 0..1, m \in 0..1}
    \ {[NoRead EXCEPT !.id = id, !.moves = 1]}
\* what the worker dereferences at lines 42-43: called_chunks[0] exists and
\* its moves are not empty
HasPrerequisites(read) == read.called_chunks > 0 /\ read.moves > 0
\* utils::div_round_closest(n, d) for d > 0
div_round_closest(n, d) == (n + d \div 2) \div d
\* the strides an out-of-range called_chunks[0] or a division by zero may
\* leave in block_stride
UndefinedStrides == 0..2

ModInit ==
    /\ m_reads = <<>>
    /\ m_terminate = FALSE
    /\ modPushed = 0
    /\ modPc = "wait"
    /\ modRead = NoRead
    /\ block_stride = 0
    /\ runnerCalls = {}
    /\ modSink = <<>>
    /\ sinkTerminateCalls = 0
    /\ dtorPc = "idle"

\* ReadSink::push_read(read), called by the upstream node before it
\* terminates this node: blocks while the queue holds max_reads reads
ModPushRead ==
    /\ ~m_terminate
    /\ dtorPc = "idle"
    /\ modPushed < MaxModReads
    /\ Len(m_reads) < QueueCap
    /\ \E read \in NewReads(modPushed + 1) : m_reads' = Append(m_reads, read)
    /\ modPushed' = modPushed + 1
    /\ UNCHANGED <<m_terminate, modPc, modRead, block_stride, runnerCalls, modSink,
                   sinkTerminateCalls, dtorPc>>

\* ReadSink::terminate(), called by the upstream node
ModTerminate ==
    /\ ~m_terminate
    /\ dtorPc = "idle"
    /\ m_terminate' = TRUE
    /\ UNCHANGED <<m_reads, modPushed, modPc, modRead, block_stride, runnerCalls,
                   modSink, sinkTerminateCalls, dtorPc>>

\* (mutant) a worker that looks at m_terminate before it looks at the queue
ModWorkerWait_TerminateFirst ==
    /\ modPc = "wait"
    /\ IF m_terminate
       THEN /\ sinkTerminateCalls' = sinkTerminateCalls + 1
            /\ modPc' = "exited"
            /\ UNCHANGED <<m_reads, modRead>>
       ELSE /\ m_reads # <<>>
            /\ modRead' = Head(m_reads)
            /\ m_reads' = Tail(m_reads)
            /\ modPc' = "stride"
            /\ UNCHANGED sinkTerminateCalls
    /\ UNCHANGED <<m_terminate, modPushed, block_stride, runnerCalls, modSink, dtorPc>>

\* one round of the loop up to lock.unlock(): wait_for returns with a read
\* queued or after 100ms; with the queue empty the worker terminates the
\* sink and returns if m_terminate is set and goes round again otherwise
ModWorkerWait ==
    /\ modPc = "wait"
    /\ IF m_reads = <<>>
       THEN /\ m_terminate
            /\ sinkTerminateCalls' = sinkTerminateCalls + 1
            /\ modPc' = "exited"
            /\ UNCHANGED <<m_reads, modRead>>
       ELSE /\ modRead' = Head(m_reads)
            /\ m_reads' = Tail(m_reads)
            /\ modPc' = "stride"
            /\ UNCHANGED sinkTerminateCalls
    /\ UNCHANGED <<m_terminate, modPushed, block_stride, runnerCalls, modSink, dtorPc>>

\* block_stride = div_round_closest(called_chunks[0]->raw_chunk_size,
\* called_chunks[0]->moves.size()): without a first called chunk the access
\* is out of range, with empty moves the division is by zero; either is
\* undefined, the thread faults or goes on with some stride
ModWorkerStride ==
    /\ modPc = "stride"
    /\ IF HasPrerequisites(modRead)
       THEN /\ block_stride' = div_round_closest(modRead.raw_chunk_size, modRead.moves)
            /\ modPc' = "run"
       ELSE \/ /\ modPc' = "faulted"
               /\ UNCHANGED block_stride
            \/ /\ \E s \in UndefinedStrides : block_stride' = s
               /\ modPc' = "run"
    /\ UNCHANGED <<m_reads, m_terminate, modPushed, modRead, runnerCalls, modSink,
                   sinkTerminateCalls, dtorPc>>

\* m_model_runner->run(...), the probabilities and base_mod_info are stored
\* in the read, m_sink.push_read(read)
ModWorkerRun ==
    /\ modPc = "run"
    /\ runnerCalls' = runnerCalls \cup {modRead.id}
    /\ modSink' = Append(modSink, [modRead EXCEPT !.base_mod_probs = "set",
                                                  !.base_mod_info = "set"])
    /\ modRead' = NoRead
    /\ block_stride' = 0
    /\ modPc' = "wait"
    /\ UNCHANGED <<m_reads, m_terminate, modPushed, sinkTerminateCalls, dtorPc>>

\* ~ModBaseCallerNode: terminate()
ModDtorTerminate ==
    /\ dtorPc = "idle"
    /\ m_terminate' = TRUE
    /\ dtorPc' = "notify"
    /\ UNCHANGED <<m_reads, modPushed, modPc, modRead, block_stride, runnerCalls,
                   modSink, sinkTerminateCalls>>

\* m_cv.notify_one(): the worker's wait is a wait_for, nothing else changes
ModDtorNotify ==
    /\ dtorPc = "notify"
    /\ dtorPc' = "join"
    /\ UNCHANGED <<m_reads, m_terminate, modPushed, modPc, modRead, block_stride,
                   runnerCalls, modSink, sinkTerminateCalls>>

\* m_worker->join() returns once the worker thread has returned
ModDtorJoin ==
    /\ dtorPc = "join"
    /\ modPc = "exited"
    /\ dtorPc' = "returned"
    /\ UNCHANGED <<m_reads, m_terminate, modPushed, modPc, modRead, block_stride,
                   runnerCalls, modSink, sinkTerminateCalls>>

\* =========================================================================
\*  create_basecall_runners
\*  The function as a whole is an operator; the calling code holds the
\*  arguments it passed and the pair the function returned. parse_cuda_device_string,
\*  auto_calculate_num_runners and the constructors of the callers are declared
\*  in headers: parsing yields a list of devices or throws, a caller rounds
\*  chunk_size to a multiple of the model stride or fails to construct.
\* =========================================================================
MaxDevices == 2
MaxRunners == 2

VARIABLES
    build,             \* how the program was built: DORADO_GPU_BUILD and __APPLE__
    planPc,            \* position of the code that calls create_basecall_runners
    planArgs,          \* the arguments of the call
    planChunkSize,     \* the chunk_size variable of the calling code
    planResult         \* what the call produced

runnerVars == <<build, planPc, planArgs, planChunkSize, planResult>>

Builds == {"cpu_only", "metal", "cuda"}
DeviceStrings == {"cpu", "metal", "cuda:0", "cuda:all", "gpu9"}
ChunkSizes == {8, 10}
ModelStrides == {1, 4}
\* the devices "cuda:all" stands for on this machine: none, one, several
ParsedDevices(n) ==
    IF n = 0 THEN <<>>
    ELSE IF n = 1 THEN <<"cuda:0">>
    ELSE IF n = 2 THEN <<"cuda:0", "cuda:1">>
    ELSE <<"cuda:0", "cuda:1", "cuda:2">>
\* utils::parse_cuda_device_string(device): the list of devices, or it throws
Parsed(devices) == [threw |-> FALSE, devices |-> devices]
ParseThrew == [threw |-> TRUE, devices |-> <<>>]
parse_cuda_device_string(device, present) ==
    IF device = "cuda:0"
    THEN {Parsed(ParsedDevices(1))}
    ELSE IF device = "cuda:all"
    THEN {Parsed(ParsedDevices(present))}
    ELSE {Parsed(<<>>), ParseThrew}
\* the chunk size a caller or a CPU runner reports: chunk_size rounded up to
\* a multiple of the model stride
AdjustedChunkSize(chunk_size, stride) == ((chunk_size + stride - 1) \div stride) * stride

NoArgs == [device |-> "none", num_gpu_runners |-> 0, num_cpu_runners |-> 0,
           chunk_size |-> 0, stride |-> 1, present |-> 0, parsed |-> Parsed(<<>>),
           auto_runners |-> 1, caller_fails |-> FALSE]
Threw(what) == [outcome |-> "threw", error |-> what, runners |-> <<>>, callers |-> <<>>,
                num_devices |-> 0]
NoResult == [outcome |-> "none", error |-> "none", runners |-> <<>>, callers |-> <<>>,
             num_devices |-> 0]

\* lines 51-54: num_cpu_runners runners, each with its own inference context
CpuRunners(n, chunk_size, stride) ==
    [k \in 1..n |-> [caller |-> 0, chunk_size |-> AdjustedChunkSize(chunk_size, stride)]]

\* lines 85-93: one caller per device, in the order of the devices
Callers(devices, chunk_size, stride) ==
    [j \in 1..Len(devices) |->
        [device |-> devices[j], chunk_size |-> AdjustedChunkSize(chunk_size, stride)]]

\* (mutant) runners dealt out to the callers in turn
GpuRunners_RoundRobin(callers, n) ==
    [k \in 1..(Len(callers) * n) |->
        [caller |-> ((k - 1) % Len(callers)) + 1,
         chunk_size |-> callers[((k - 1) % Len(callers)) + 1].chunk_size]]

\* lines 95-98: for each caller j in turn, num_gpu_runners runners holding it
GpuRunners(callers, n) ==
    [k \in 1..(Len(callers) * n) |->
        [caller |-> ((k - 1) \div n) + 1,
         chunk_size |-> callers[((k - 1) \div n) + 1].chunk_size]]

\* lines 115-130: runners.front() is read, the adjusted chunk size goes to
\* the parameter chunk_size, a copy, and {runners, num_devices} is returned;
\* with no runner front() is undefined, the call faults or returns
Finish(runners, callers, num_devices) ==
    IF runners = <<>>
    THEN {[outcome |-> o, error |-> "none", runners |-> <<>>, callers |-> callers,
           num_devices |-> num_devices] : o \in {"faulted", "returned"}}
    ELSE {[outcome |-> "returned", error |-> "none", runners |-> runners,
           callers |-> callers, num_devices |-> num_devices]}

\* the outcomes of create_basecall_runners for a build and arguments a
create_basecall_runners(bld, a) ==
    IF a.device = "cpu"
    THEN Finish(CpuRunners(IF a.num_cpu_runners = 0 THEN a.auto_runners
                           ELSE a.num_cpu_runners, a.chunk_size, a.stride),
                <<>>, 1)
    ELSE IF bld = "cpu_only"
    THEN Finish(<<>>, <<>>, 1)
    ELSE IF bld = "metal"
    THEN IF a.device = "metal"
         THEN IF a.caller_fails THEN {Threw("CallerConstructionFailed")}
              ELSE LET callers == Callers(<<"metal">>, a.chunk_size, a.stride)
                   IN  Finish(GpuRunners(callers, a.num_gpu_runners), callers, 1)
         ELSE {Threw("Unsupported device")}
    ELSE IF a.parsed.threw
    THEN {Threw("Invalid device string")}
    ELSE IF Len(a.parsed.devices) = 0
    THEN {Threw("CUDA device requested but no devices found.")}
    ELSE IF a.caller_fails THEN {Threw("CallerConstructionFailed")}
    ELSE LET callers == Callers(a.parsed.devices, a.chunk_size, a.stride)
         IN  Finish(GpuRunners(callers, a.num_gpu_runners), callers,
                    Len(a.parsed.devices))

RunnersInitAs(bld) ==
    /\ build = bld
    /\ planPc = "idle"
    /\ planArgs = NoArgs
    /\ planChunkSize = 0
    /\ planResult = NoResult

RunnersInit == \E bld \in Builds : RunnersInitAs(bld)

\* the calling code fixes its configuration and calls the function; what
\* the machine holds (devices present, what parsing yields, the model
\* stride, whether a caller can be constructed) is fixed with it
PlanCall ==
    /\ planPc = "idle"
    /\ \E device \in DeviceStrings, g \in 0..MaxRunners, c \in 0..MaxRunners,
          chunk_size \in ChunkSizes, stride \in ModelStrides, present \in 0..MaxDevices,
          auto \in 1..MaxRunners, fails \in BOOLEAN :
          \E parsed \in parse_cuda_device_string(device, present) :
             /\ planArgs' = [device |-> device, num_gpu_runners |-> g,
                             num_cpu_runners |-> c, chunk_size |-> chunk_size,
                             stride |-> stride, present |-> present, parsed |-> parsed,
                             auto_runners |-> auto, caller_fails |-> fails]
             /\ planChunkSize' = chunk_size
    /\ planPc' = "called"
    /\ UNCHANGED <<build, planResult>>

\* the call ends: the calling code has the returned pair, or the exception;
\* its own chunk_size is what it was, the parameter was passed by value
PlanReturn ==
    /\ planPc = "called"
    /\ \E r \in create_basecall_runners(build, planArgs) : planResult' = r
    /\ planPc' = "done"
    /\ UNCHANGED <<build, planArgs, planChunkSize>>

\* =========================================================================
\*  CorrectionNode: extract_windows
\*  The body of the loop over the alignments, for one alignment: an
\*  operator from the overlap, its cigar and the window size to the
\*  OverlapWindows pushed, each with the index of the windows[] slot it
\*  was pushed to, in the order of the pushes.
\* =========================================================================
MaxCigarOps == 3

VARIABLES
    winPc,        \* "idle" before extract_windows has run, "done" after
    alignment,    \* the overlap (tstart, tend, tlen) and its cigar
    m_window_size,
    windows       \* the OverlapWindows pushed for the alignment

windowVars == <<winPc, alignment, m_window_size, windows>>

\* the operations and lengths the alignments of the model are made of
OpLens == {1, 4, 9}
CigarOps == {[op |-> o, len |-> l] : o \in {"MATCH", "DEL", "INS"}, l \in OpLens}
WindowSizes == {4, 10}
TargetStarts == 0..5
\* tlen - tend: the target bases behind the alignment
TargetTails == {0, 2}
RECURSIVE Cigars(_)
Cigars(n) ==
    IF n = 0 THEN {<<>>}
    ELSE Cigars(n - 1) \cup {Append(c, o) : c \in Cigars(n - 1), o \in CigarOps}
\* the target bases an operation consumes
TargetLen(op) == IF op.op \in {"MATCH", "MISMATCH", "DEL"} THEN op.len ELSE 0
RECURSIVE TargetSpan(_)
TargetSpan(cigar) ==
    IF cigar = <<>> THEN 0 ELSE TargetLen(Head(cigar)) + TargetSpan(Tail(cigar))
\* an overlap whose tend is tstart plus what its cigar consumes
Alignments ==
    {[tstart |-> s, tend |-> s + TargetSpan(c), tlen |-> s + TargetSpan(c) + e,
      cigar |-> c] :
        s \in TargetStarts, e \in TargetTails, c \in Cigars(MaxCigarOps) \ {<<>>}}

IsMatch(op) == op.op \in {"MATCH", "MISMATCH"}
\* int zeroth_window_thresh = (0.1f * m_window_size)
zeroth_window_thresh(window_size) == window_size \div 10

\* the locals of the loop body and the windows pushed so far
Locals(tpos, qpos, tws, qws, csi, cso, pushed) ==
    [tpos |-> tpos, qpos |-> qpos, t_window_start |-> tws, q_window_start |-> qws,
     cigar_start_idx |-> csi, cigar_start_offset |-> cso, windows |-> pushed]
\* windows[slot].push_back({a, tstart, qstart, qend, cigar_start_idx,
\* cigar_start_offset, cigar_end_idx, cigar_end_offset})
OverlapWindow(slot, st, qend, cigar_end_idx, cigar_end_offset) ==
    [slot |-> slot, tstart |-> st.t_window_start, qstart |-> st.q_window_start,
     qend |-> qend, cigar_start_idx |-> st.cigar_start_idx,
     cigar_start_offset |-> st.cigar_start_offset, cigar_end_idx |-> cigar_end_idx,
     cigar_end_offset |-> cigar_end_offset]

\* lines 330-360: for (int i = 1; i < diff_w; i++), the windows an
\* operation spans from end to end
RECURSIVE SpannedWindows(_, _, _, _, _, _, _)
SpannedWindows(st, i, diff_w, current_w, op, cigar_idx, ws) ==
    IF i >= diff_w THEN st
    ELSE LET offset == (current_w + i) * ws - st.tpos
             q_start_new == IF IsMatch(op) THEN st.qpos + offset ELSE st.qpos
             pushed == IF st.cigar_start_idx >= 0
                       THEN Append(st.windows,
                                   OverlapWindow((current_w + i) - 1, st, q_start_new,
                                                 cigar_idx, offset))
                       ELSE st.windows
         IN  SpannedWindows([st EXCEPT !.windows = pushed,
                                       !.t_window_start = st.tpos + offset,
                                       !.q_window_start = q_start_new],
                            i + 1, diff_w, current_w, op, cigar_idx, ws)

\* (mutant) a window is closed at the position the operation ends at
ClosingOffset_AtOpEnd(tpos, tnew, new_w, ws) == tnew - tpos

\* line 363: int offset = new_w * m_window_size - tpos
ClosingOffset(tpos, tnew, new_w, ws) == new_w * ws - tpos

\* lines 295-409: the loop over the cigar, from operation cigar_idx on
RECURSIVE CigarLoop(_, _, _, _)
CigarLoop(st, cigar, cigar_idx, ws) ==
    IF cigar_idx >= Len(cigar) THEN st
    ELSE LET op == cigar[cigar_idx + 1] IN
         IF op.op = "INS"
         THEN CigarLoop([st EXCEPT !.qpos = @ + op.len], cigar, cigar_idx + 1, ws)
         ELSE IF op.op \notin {"MATCH", "MISMATCH", "DEL"}
         THEN CigarLoop(st, cigar, cigar_idx + 1, ws)
         ELSE LET tnew == st.tpos + op.len
                  qnew == IF IsMatch(op) THEN st.qpos + op.len ELSE st.qpos
                  current_w == st.tpos \div ws
                  new_w == tnew \div ws
                  diff_w == new_w - current_w
              IN  IF diff_w = 0
                  THEN CigarLoop([st EXCEPT !.tpos = tnew, !.qpos = qnew],
                                 cigar, cigar_idx + 1, ws)
                  ELSE LET st1 == SpannedWindows(st, 1, diff_w, current_w, op,
                                                 cigar_idx, ws)
                           offset == ClosingOffset(st.tpos, tnew, new_w, ws)
                           at_boundary == tnew = new_w * ws
                           ins_follows == /\ cigar_idx + 1 < Len(cigar)
                                          /\ cigar[cigar_idx + 2].op = "INS"
                           qend == (IF IsMatch(op) THEN st.qpos + offset ELSE st.qpos)
                                   + (IF at_boundary /\ ins_follows
                                      THEN cigar[cigar_idx + 2].len ELSE 0)
                           cigar_end_idx == IF at_boundary
                                            THEN IF ins_follows THEN cigar_idx + 2
                                                 ELSE cigar_idx + 1
                                            ELSE cigar_idx
                           cigar_end_offset == IF at_boundary THEN 0 ELSE offset
                           pushed == IF st1.cigar_start_idx >= 0
                                     THEN Append(st1.windows,
                                                 OverlapWindow(new_w - 1, st1, qend,
                                                               cigar_end_idx,
                                                               cigar_end_offset))
                                     ELSE st1.windows
                       IN  CigarLoop(Locals(tnew, qnew, st.tpos + offset, qend,
                                            cigar_end_idx, cigar_end_offset, pushed),
                                     cigar, cigar_idx + 1, ws)

\* lines 244-246 and 252-276: the alignment is shorter than a window, or
\* reaches into no window
SkipsAlignment(overlap, ws) ==
    LET nth_window_thresh == overlap.tlen - zeroth_window_thresh(ws)
        first_window == IF overlap.tstart < zeroth_window_thresh(ws) THEN 0
                        ELSE (overlap.tstart + ws - 1) \div ws
        last_window == IF overlap.tend > nth_window_thresh
                       THEN (overlap.tend - 1) \div ws + 1
                       ELSE overlap.tend \div ws
    IN  \/ overlap.tend - overlap.tstart < ws
        \/ last_window - first_window < 1

\* the body of the loop of extract_windows for one alignment
extract_windows(overlap, ws) ==
    IF SkipsAlignment(overlap, ws) THEN <<>>
    ELSE LET nth_window_thresh == overlap.tlen - zeroth_window_thresh(ws)
             last_window == IF overlap.tend > nth_window_thresh
                            THEN (overlap.tend - 1) \div ws + 1
                            ELSE overlap.tend \div ws
             tpos == overlap.tstart
             st0 == IF (tpos % ws = 0) \/ (overlap.tstart < zeroth_window_thresh(ws))
                    THEN Locals(tpos, 0, tpos, 0, 0, 0, <<>>)
                    ELSE Locals(tpos, 0, -1, -1, -1, -1, <<>>)
             st == CigarLoop(st0, overlap.cigar, 0, ws)
         IN  IF st.tpos > nth_window_thresh /\ (st.tpos % ws # 0)
             THEN Append(st.windows,
                         OverlapWindow(last_window - 1, st, st.qpos,
                                       Len(overlap.cigar), 0))
             ELSE st.windows

WindowsInitAs(a, ws) ==
    /\ winPc = "idle"
    /\ alignment = a
    /\ m_window_size = ws
    /\ windows = <<>>

WindowsInit == \E a \in Alignments, ws \in WindowSizes : WindowsInitAs(a, ws)

\* extract_windows(windows, alignments, m_window_size)
ExtractWindows ==
    /\ winPc = "idle"
    /\ windows' = extract_windows(alignment, m_window_size)
    /\ winPc' = "done"
    /\ UNCHANGED <<alignment, m_window_size>>

\* =========================================================================
\*  HtsFile::calculate_sorting_key on pairs of mapped records
\* =========================================================================
VARIABLES
    keyPc,          \* "records": two records are given; "keys": their keys
    keyRecords,     \* the two records
    keys            \* their sorting keys, once computed

keyVars == <<keyPc, keyRecords, keys>>

\* core.tid of a mapped record: a non-negative int32_t; the smallest ones and
\* the largest
MappedTids == {0, 1, 2, Pow2(HalfBits - 1) - 1}
\* core.pos below 2^32
MappedPositions == 0..(Pow2(HalfBits) - 1)
MappedRecords ==
    {[id |-> 0, tid |-> t, pos |-> p, l_data |-> 0] :
        t \in MappedTids, p \in MappedPositions}

KeysInitAs(a, b) ==
    /\ keyPc = "records"
    /\ keyRecords = <<a, b>>
    /\ keys = <<>>

KeysInit == \E a, b \in MappedRecords : KeysInitAs(a, b)

\* the keys of the two records, as flush_temp_file and merge_temp_files take
\* them
ComputeKeys ==
    /\ keyPc = "records"
    /\ keys' = <<calculate_sorting_key(keyRecords[1]),
                 calculate_sorting_key(keyRecords[2])>>
    /\ keyPc' = "keys"
    /\ UNCHANGED keyRecords

\* =========================================================================
\*  CorrectionNode: extract_features
\*  One step per window of the target read: the overlaps of the window are
\*  filtered, sorted and cut to the best TOP_K, the first two are logged,
\*  and get_max_ins_for_window fills the max-insertion array. Each step
\*  notes the indexed accesses it makes to the window's overlap list and to
\*  max_ins, with the size of the container at that moment.
\* =========================================================================
\* const int TOP_K
TOP_K == 30
\* an insertion or deletion of this length makes filter_overlap drop the overlap
LongIndelLen == 30

VARIABLES
    featPc,          \* "running", "done", or "faulted" by an access out of bounds
    featAlignment,   \* the overlap and its cigar
    featCopies,      \* the number of overlaps of the message that carry it
    featWindowSize,  \* m_window_size
    featW,           \* the window the loop of extract_features is at
    featAccesses     \* the indexed accesses of the last step

featureVars == <<featPc, featAlignment, featCopies, featWindowSize, featW, featAccesses>>

\* the overlaps of the model: short operations and a long deletion, from a
\* target start on and off a window boundary
FeatureOps == CigarOps \cup {[op |-> "DEL", len |-> LongIndelLen]}
FeatureCigars ==
    {<<a>> : a \in FeatureOps} \cup {<<a, b>> : a \in FeatureOps, b \in FeatureOps}
FeatureAlignments ==
    {[tstart |-> s, tend |-> s + TargetSpan(c), tlen |-> s + TargetSpan(c) + e,
      cigar |-> c] :
        s \in {0, 1}, e \in TargetTails, c \in FeatureCigars}

\* size_t n_windows = (read_seq.length() + m_window_size - 1) / m_window_size
n_windows(tlen, ws) == (tlen + ws - 1) \div ws

\* windows[w] as extract_windows leaves it: per overlap of the message, in
\* their order, the OverlapWindows it pushed to slot w
WindowOverlaps(overlap, copies, ws, w) ==
    LET own == SelectSeq(extract_windows(overlap, ws), LAMBDA x : x.slot = w)
    IN  IF copies = 1 THEN own ELSE own \o own

\* filter_overlap: an INS or DEL of at least 30 between cigar_start_idx and
\* min(cigar_end_idx + 1, cigar.size())
filter_overlap(ov, cigar) ==
    \E i \in ov.cigar_start_idx..(Min({ov.cigar_end_idx + 1, Len(cigar)}) - 1) :
        /\ cigar[i + 1].op \in {"INS", "DEL"}
        /\ cigar[i + 1].len >= LongIndelLen

\* lines 203-222: the overlaps that are not filtered, sorted by accuracy
\* (the overlaps of a window of the model are copies of one another, so
\* every order is the same list), cut to the best TOP_K
SurvivingOverlaps(overlaps, cigar) ==
    LET filtered == SelectSeq(overlaps, LAMBDA ov : ~filter_overlap(ov, cigar))
    IN  SubSeq(filtered, 1, Min({TOP_K, Len(filtered)}))

Access(array, index, size) == [array |-> array, index |-> index, size |-> size]

\* line 223: windows[w][0].qend, windows[w][1].qend
LoggedOverlaps(n) == {Access("windows[w]", 0, n), Access("windows[w]", 1, n)}

\* lines 158-180 for one overlap, from cigar operation i on: the indices
\* max_ins[tpos - 1] of the insertions
RECURSIVE MaxInsIndices(_, _, _, _)
MaxInsIndices(ov, cigar, i, tpos) ==
    IF i > Min({ov.cigar_end_idx, Len(cigar) - 1}) THEN {}
    ELSE LET op == cigar[i + 1]
             cigar_len == ov.cigar_end_idx - ov.cigar_start_idx + 1
         IN  IF op.op = "INS"
             THEN {tpos - 1} \cup MaxInsIndices(ov, cigar, i + 1, tpos)
             ELSE LET l == IF op.op \in {"MATCH", "DEL"} THEN op.len ELSE -1
                      step == IF cigar_len = 1
                              THEN ov.cigar_end_offset - ov.cigar_start_offset
                              ELSE IF i = ov.cigar_start_idx
                              THEN l - ov.cigar_start_offset
                              ELSE IF i = ov.cigar_end_idx
                              THEN ov.cigar_end_offset
                              ELSE l
                  IN  MaxInsIndices(ov, cigar, i + 1, tpos + step)

\* get_max_ins_for_window(windows, alignments, tstart, win_len): max_ins has
\* win_len entries; every overlap starts at tpos = overlap.tstart - tstart
get_max_ins_for_window(overlaps, cigar, tstart, win_len) ==
    UNION {{Access("max_ins", idx, win_len) :
               idx \in MaxInsIndices(overlaps[k], cigar, overlaps[k].cigar_start_idx,
                                     overlaps[k].tstart - tstart)} :
           k \in 1..Len(overlaps)}

InBounds(access) == access.index >= 0 /\ access.index < access.size

FeaturesInitAs(a, copies, ws) ==
    /\ featPc = "running"
    /\ featAlignment = a
    /\ featCopies = copies
    /\ featWindowSize = ws
    /\ featW = 0
    /\ featAccesses = {}

FeaturesInit ==
    \E a \in FeatureAlignments, copies \in {1, 2}, ws \in WindowSizes :
        FeaturesInitAs(a, copies, ws)

\* one pass of the loop of extract_features over the windows (lines
\* 197-227). An access outside its container is undefined: the pass faults,
\* or goes on with whatever was there.
ExtractFeaturesWindow ==
    /\ featPc = "running"
    /\ featW < n_windows(featAlignment.tlen, featWindowSize)
    /\ LET total == n_windows(featAlignment.tlen, featWindowSize)
           win_len == IF featW = total - 1
                      THEN featAlignment.tlen - featWindowSize * featW
                      ELSE featWindowSize
           kept == SurvivingOverlaps(
                       WindowOverlaps(featAlignment, featCopies, featWindowSize, featW),
                       featAlignment.cigar)
           logged == LoggedOverlaps(Len(kept))
           accesses == logged \cup get_max_ins_for_window(kept, featAlignment.cigar,
                                                         featW * featWindowSize, win_len)
       IN  /\ featAccesses' = accesses
           /\ featPc' \in (IF \A x \in accesses : InBounds(x) THEN {} ELSE {"faulted"})
                          \cup {IF featW + 1 < total THEN "running" ELSE "done"}
    /\ featW' = featW + 1
    /\ UNCHANGED <<featAlignment, featCopies, featWindowSize>>

\* =========================================================================
\*  Specifications
\* =========================================================================
vars == <<execVars, pqVars, nodeVars, htsVars, statsVars, modVars, runnerVars,
          windowVars, keyVars, featureVars>>

\* what the steps of one subsystem leave alone: the variables of the others
\* (the statistics steps of PolyACalculatorNode say themselves what they
\* leave of nodeVars)
exceptExec == <<pqVars, nodeVars, htsVars, statsVars, modVars, runnerVars, windowVars, keyVars, featureVars>>
exceptHts == <<execVars, pqVars, nodeVars, statsVars, modVars, runnerVars, windowVars, keyVars, featureVars>>
exceptMod == <<execVars, pqVars, nodeVars, htsVars, statsVars, runnerVars, windowVars, keyVars, featureVars>>
exceptNode == <<execVars, pqVars, htsVars, statsVars, modVars, runnerVars, windowVars, keyVars, featureVars>>
exceptPQ == <<execVars, nodeVars, htsVars, statsVars, modVars, runnerVars, windowVars, keyVars, featureVars>>
exceptRunners == <<execVars, pqVars, nodeVars, htsVars, statsVars, modVars, windowVars, keyVars, featureVars>>
exceptStats == <<execVars, pqVars, htsVars, modVars, runnerVars, windowVars, keyVars, featureVars>>
exceptWindows == <<execVars, pqVars, nodeVars, htsVars, statsVars, modVars, runnerVars, keyVars, featureVars>>
exceptKeys == <<execVars, pqVars, nodeVars, htsVars, statsVars, modVars, runnerVars, windowVars, featureVars>>
exceptFeatures == <<execVars, pqVars, nodeVars, htsVars, statsVars, modVars, runnerVars, windowVars, keyVars>>

\* the state of a subsystem that a specification does not exercise
StatsIdle == StatsInitAs(FALSE)
ModIdle == ModInit
RunnersIdle == RunnersInitAs("cuda")
WindowsIdle ==
    WindowsInitAs([tstart |-> 0, tend |-> 1, tlen |-> 1,
                   cigar |-> <<[op |-> "MATCH", len |-> 1]>>], 4)
PQIdle ==
    /\ pqPrio = [p \in Producers |-> "normal"]
    /\ pqSub = [p \in Producers |-> <<>>]
    /\ m_low_producer_queue = <<>>
    /\ m_high_producer_queue = <<>>
    /\ m_num_normal_prio = 0
    /\ m_num_high_prio = 0
    /\ pqPushed = 0
    /\ pqLast = NoOp
    /\ pqRound = NoRound
NodeIdle == NodeInitAs("PolyACalculatorNode")
KeysIdle == KeysInitAs(NoRecord, NoRecord)
FeaturesIdle ==
    FeaturesInitAs([tstart |-> 0, tend |-> 1, tlen |-> 1,
                    cigar |-> <<[op |-> "MATCH", len |-> 1]>>], 1, 4)
HtsIdle == HtsInitAs(FALSE)

InitExec == ExecInit /\ PQIdle /\ NodeIdle /\ HtsIdle /\ StatsIdle /\ ModIdle /\ RunnersIdle /\ WindowsIdle /\ KeysIdle /\ FeaturesIdle
InitPQ == ExecInit /\ PQInit /\ NodeIdle /\ HtsIdle /\ StatsIdle /\ ModIdle /\ RunnersIdle /\ WindowsIdle /\ KeysIdle /\ FeaturesIdle
InitNode == ExecInit /\ PQIdle /\ NodeInit /\ HtsIdle /\ StatsIdle /\ ModIdle /\ RunnersIdle /\ WindowsIdle /\ KeysIdle /\ FeaturesIdle
InitHts == ExecInit /\ PQIdle /\ NodeIdle /\ HtsInit /\ StatsIdle /\ ModIdle /\ RunnersIdle /\ WindowsIdle /\ KeysIdle /\ FeaturesIdle

NextExec ==
    \/ \E t \in UserTasks : SendPush(t) /\ UNCHANGED exceptExec
    \/ \E t \in UserTasks : SendNotify(t) /\ UNCHANGED exceptExec
    \/ \E t \in UserTasks : SendReturn(t) /\ UNCHANGED exceptExec
    \/ \E w \in Workers : WorkerLoop(w) /\ UNCHANGED exceptExec
    \/ \E w \in Workers : WorkerWait(w) /\ UNCHANGED exceptExec
    \/ \E w \in Workers : WorkerSpuriousWake(w) /\ UNCHANGED exceptExec
    \/ \E w \in Workers : WorkerSignal(w) /\ UNCHANGED exceptExec
    \/ \E w \in Workers : WorkerRun(w) /\ UNCHANGED exceptExec
    \/ JoinBegin /\ UNCHANGED exceptExec
    \/ JoinPost /\ UNCHANGED exceptExec
    \/ JoinNotify /\ UNCHANGED exceptExec
    \/ JoinWorkers /\ UNCHANGED exceptExec

NextPQ ==
    \/ \E p \in Producers : PQPush(p) /\ UNCHANGED exceptPQ
    \/ PQPop /\ UNCHANGED exceptPQ
    \/ \E c \in Priorities : PQPopPrio(c) /\ UNCHANGED exceptPQ

NextNode ==
    \/ \E i \in MsgIds : NodePush(i) /\ UNCHANGED exceptNode
    \/ \E i \in MsgIds : NodePushResume(i) /\ UNCHANGED exceptNode
    \/ \E w \in NodeWorkers : NodeWorkerGet(w) /\ UNCHANGED exceptNode
    \/ \E w \in NodeWorkers : NodeWorkerForward(w) /\ UNCHANGED exceptNode
    \/ \E w \in NodeWorkers : NodeWorkerNoCalcSend(w) /\ UNCHANGED exceptNode
    \/ \E w \in NodeWorkers : NodeWorkerNoCalcCount(w) /\ UNCHANGED exceptNode
    \/ \E w \in NodeWorkers : NodeWorkerCalcNode(w) /\ UNCHANGED exceptNode
    \/ \E w \in NodeWorkers : NodeWorkerCalcOld(w) /\ UNCHANGED exceptNode
    \/ \E w \in NodeWorkers : NodeWorkerSend(w) /\ UNCHANGED exceptNode
    \/ \E w \in NodeWorkers : NodeWorkerWindows(w) /\ UNCHANGED exceptNode
    \/ NodeTerminate /\ UNCHANGED exceptNode
    \/ NodeJoin /\ UNCHANGED exceptNode
    \/ NodeTerminateLog /\ UNCHANGED exceptNode

\* one PolyACalculator through terminate and restart, any number of times,
\* with producers that push reads
InitRestart == ExecInit /\ PQIdle /\ NodeInitAs("PolyACalculator") /\ HtsIdle /\ StatsIdle /\ ModIdle /\ RunnersIdle /\ WindowsIdle /\ KeysIdle /\ FeaturesIdle

PushesRead(i) == msgSent'[i].kind = "SimplexRead" /\ ~msgSent'[i].calc

NextRestart ==
    \/ \E i \in MsgIds : NodePush(i) /\ PushesRead(i) /\ UNCHANGED exceptNode
    \/ \E i \in MsgIds : NodePushResume(i) /\ UNCHANGED exceptNode
    \/ \E w \in NodeWorkers : NodeWorkerGet(w) /\ UNCHANGED exceptNode
    \/ \E w \in NodeWorkers : NodeWorkerCalcOld(w) /\ UNCHANGED exceptNode
    \/ \E w \in NodeWorkers : NodeWorkerSend(w) /\ UNCHANGED exceptNode
    \/ NodeTerminate /\ UNCHANGED exceptNode
    \/ NodeJoin /\ UNCHANGED exceptNode
    \/ NodeTerminateLog /\ UNCHANGED exceptNode
    \/ NodeRestartQueue /\ UNCHANGED exceptNode
    \/ NodeStartThreads /\ UNCHANGED exceptNode

SpecExec == InitExec /\ [][NextExec]_vars

\* every worker thread and the thread inside join() are scheduled again and
\* again, and every task body returns; senders are free to stop sending and
\* a condition variable need not wake spuriously
ExecFairness ==
    /\ \A w \in Workers :
          /\ WF_vars(WorkerLoop(w) /\ UNCHANGED exceptExec)
          /\ WF_vars(WorkerWait(w) /\ UNCHANGED exceptExec)
          /\ WF_vars(WorkerSignal(w) /\ UNCHANGED exceptExec)
          /\ WF_vars(WorkerRun(w) /\ UNCHANGED exceptExec)
    /\ WF_vars(JoinPost /\ UNCHANGED exceptExec)
    /\ WF_vars(JoinNotify /\ UNCHANGED exceptExec)
    /\ WF_vars(JoinWorkers /\ UNCHANGED exceptExec)

\* the executor used as its owner uses it: one thread calls send(), a call
\* at a time, and begins none once the destructor has called join()
SendsBeforeJoin(t) ==
    /\ SendPush(t)
    /\ joinPc = "idle"
    /\ \A u \in UserTasks : u < t => sendPc[u] = "returned"

NextJoin ==
    \/ \E t \in UserTasks : SendsBeforeJoin(t) /\ UNCHANGED exceptExec
    \/ \E t \in UserTasks : SendNotify(t) /\ UNCHANGED exceptExec
    \/ \E t \in UserTasks : SendReturn(t) /\ UNCHANGED exceptExec
    \/ \E w \in Workers : WorkerLoop(w) /\ UNCHANGED exceptExec
    \/ \E w \in Workers : WorkerWait(w) /\ UNCHANGED exceptExec
    \/ \E w \in Workers : WorkerSpuriousWake(w) /\ UNCHANGED exceptExec
    \/ \E w \in Workers : WorkerSignal(w) /\ UNCHANGED exceptExec
    \/ \E w \in Workers : WorkerRun(w) /\ UNCHANGED exceptExec
    \/ JoinBegin /\ UNCHANGED exceptExec
    \/ JoinPost /\ UNCHANGED exceptExec
    \/ JoinNotify /\ UNCHANGED exceptExec
    \/ JoinWorkers /\ UNCHANGED exceptExec

SpecJoin == InitExec /\ [][NextJoin]_vars /\ ExecFairness

SpecPQ == InitPQ /\ [][NextPQ]_vars

SpecNode == InitNode /\ [][NextNode]_vars

NextHts ==
    \/ \E mapped \in BOOLEAN :
          HtsSetHeader(mapped) /\ UNCHANGED exceptHts
    \/ \E shape \in RecordShapes :
          HtsWrite(shape) /\ UNCHANGED exceptHts
    \/ HtsFinalise /\ UNCHANGED exceptHts

SpecHts == InitHts /\ [][NextHts]_vars

InitStats == ExecInit /\ PQIdle /\ NodeIdle /\ HtsIdle /\ StatsInit /\ ModIdle /\ RunnersIdle /\ WindowsIdle /\ KeysIdle /\ FeaturesIdle
NextStats ==
    \/ \E w \in NodeWorkers : RecCount(w) /\ UNCHANGED exceptStats
    \/ \E w \in NodeWorkers : RecLevel(w) /\ UNCHANGED exceptStats
    \/ \E w \in NodeWorkers : RecLock(w) /\ UNCHANGED exceptStats
    \/ \E w \in NodeWorkers : RecWriteBegin(w) /\ UNCHANGED exceptStats
    \/ \E w \in NodeWorkers : RecWriteEnd(w) /\ UNCHANGED exceptStats
    \/ \E w \in NodeWorkers : RecUnlock(w) /\ UNCHANGED exceptStats
    \/ SampleCounters /\ UNCHANGED exceptStats
    \/ SampleReadBegin /\ UNCHANGED exceptStats
    \/ SampleReadEnd /\ UNCHANGED exceptStats
    \/ SampleReturn /\ UNCHANGED exceptStats

SpecStats == InitStats /\ [][NextStats]_vars

InitMod == ExecInit /\ PQIdle /\ NodeIdle /\ HtsIdle /\ StatsIdle /\ ModInit /\ RunnersIdle /\ WindowsIdle /\ KeysIdle /\ FeaturesIdle
NextMod ==
    \/ ModPushRead /\ UNCHANGED exceptMod
    \/ ModTerminate /\ UNCHANGED exceptMod
    \/ ModWorkerWait /\ UNCHANGED exceptMod
    \/ ModWorkerStride /\ UNCHANGED exceptMod
    \/ ModWorkerRun /\ UNCHANGED exceptMod
    \/ ModDtorTerminate /\ UNCHANGED exceptMod
    \/ ModDtorNotify /\ UNCHANGED exceptMod
    \/ ModDtorJoin /\ UNCHANGED exceptMod

SpecMod == InitMod /\ [][NextMod]_vars

InitRunners == ExecInit /\ PQIdle /\ NodeIdle /\ HtsIdle /\ StatsIdle /\ ModIdle /\ RunnersInit /\ WindowsIdle /\ KeysIdle /\ FeaturesIdle
NextRunners ==
    \/ PlanCall /\ UNCHANGED exceptRunners
    \/ PlanReturn /\ UNCHANGED exceptRunners

SpecRunners == InitRunners /\ [][NextRunners]_vars

InitWindows == ExecInit /\ PQIdle /\ NodeIdle /\ HtsIdle /\ StatsIdle /\ ModIdle /\ RunnersIdle /\ WindowsInit /\ KeysIdle /\ FeaturesIdle
NextWindows ==
    \/ ExtractWindows /\ UNCHANGED exceptWindows

SpecWindows == InitWindows /\ [][NextWindows]_vars

InitKeys == ExecInit /\ PQIdle /\ NodeIdle /\ HtsIdle /\ StatsIdle /\ ModIdle /\ RunnersIdle /\ WindowsIdle /\ KeysInit /\ FeaturesIdle
NextKeys == ComputeKeys /\ UNCHANGED exceptKeys
SpecKeys == InitKeys /\ [][NextKeys]_vars

InitFeatures == ExecInit /\ PQIdle /\ NodeIdle /\ HtsIdle /\ StatsIdle /\ ModIdle /\ RunnersIdle /\ WindowsIdle /\ KeysIdle /\ FeaturesInit
NextFeatures == ExtractFeaturesWindow /\ UNCHANGED exceptFeatures
SpecFeatures == InitFeatures /\ [][NextFeatures]_vars

\* every running worker thread is scheduled again and again, and so is the
\* thread inside restart(); the callers of push_message, terminate and
\* restart are free to stop calling
RestartFairness ==
    /\ \A w \in NodeWorkers :
          /\ WF_vars(NodeWorkerGet(w) /\ UNCHANGED exceptNode)
          /\ WF_vars(NodeWorkerCalcOld(w) /\ UNCHANGED exceptNode)
          /\ WF_vars(NodeWorkerSend(w) /\ UNCHANGED exceptNode)
    /\ WF_vars(NodeStartThreads /\ UNCHANGED exceptNode)

SpecRestart == InitRestart /\ [][NextRestart]_vars /\ RestartFairness

\* =========================================================================
\*  Claims: AsyncTaskExecutor
\* =========================================================================
\* the worker holding task t, if any
HeldBy(t) == {w \in Workers : workerTask[w] = t}

\* C1: send(t) returns only after a worker has removed t from the task queue
\* and signalled t's started latch; it never returns while t is still queued.
C1_SendReturnsAfterStart ==
    \A t \in UserTasks :
        sendPc[t] = "returned" =>
            /\ started[t]
            /\ t \notin SeqToSet(m_task_queue)
            /\ (finished[t] \/ HeldBy(t) # {})

\* a send has returned while its task is still running on a worker
C1_Witness ==
    \E t \in UserTasks : sendPc[t] = "returned" /\ ~finished[t] /\ HeldBy(t) # {}

\* C2 (as claimed): when join() has returned, every task that a send enqueued
\* has been run to completion by a worker.
C2_AllEnqueuedRunAtJoinReturn ==
    joinPc = "returned" =>
        \A t \in UserTasks : sendPc[t] # "idle" => finished[t]

\* tasks whose latch is signalled and whose body has not yet returned
InFlight == {t \in AllTasks : started[t] /\ ~finished[t]}

\* C3: the number of tasks whose started latch has been signalled and whose
\* body has not finished never exceeds the number of worker threads.
C3_InFlightBounded == Cardinality(InFlight) <= NumWorkers

\* every worker is busy while another producer is still blocked in send
C3_Witness ==
    /\ Cardinality(InFlight) = NumWorkers
    /\ \E t \in UserTasks : sendPc[t] = "wait_started" /\ ~started[t]

\* C4 (as claimed): workers take tasks in priority order: no worker takes a
\* normal-priority task from the queue while a high-priority task that was
\* sent after it (so while it was queued) is waiting in the queue.
C4_HighStartsBeforeQueuedNormal ==
    [][\A w \in Workers :
          (workerPc[w] = "wait" /\ workerPc'[w] = "signal") =>
              ~ (/\ TaskPrio(workerTask'[w]) = "normal"
                 /\ workerTask'[w] \in UserTasks
                 /\ \E h \in SeqToSet(m_task_queue) \cap UserTasks :
                        TaskPrio(h) = "high" /\ workerTask'[w] < h)]_vars

\* =========================================================================
\*  Claims: PriorityTaskQueue
\* =========================================================================
\* C5: pop() returns a high-priority task whenever at least one high-priority
\* task is queued; it returns a normal-priority task only when no
\* high-priority task is queued at that moment.
C5_PopPrefersHigh ==
    pqLast.op = "pop" =>
        /\ (pqLast.highBefore => pqLast.prio = "high")
        /\ (pqLast.prio = "normal" => ~pqLast.highBefore)

\* pop() was called with tasks of both classes queued
C5_Witness ==
    /\ pqLast.op = "pop"
    /\ pqLast.highBefore
    /\ pqLast.normalBefore
    /\ pqLast.prio = "high"

NoDuplicates(s) == \A i, j \in 1..Len(s) : i # j => s[i] # s[j]

\* C6: within one class the ready producers are served round-robin, least
\* recently served first: the pops of the class that follow a moment at which
\* producers P1..Pn are ready return one task from each of them, in ready-list
\* order, before any producer is served twice; and a producer is in the ready
\* list of its class exactly while it has pending tasks.
C6_RoundRobinPerClass ==
    /\ pqRound.served = SubSeq(pqRound.snap, 1, Len(pqRound.served))
    /\ NoDuplicates(pqRound.served)
    /\ \A c \in Priorities :
          /\ NoDuplicates(ReadyList(c))
          /\ SeqToSet(ReadyList(c)) =
                 {p \in Producers : pqPrio[p] = c /\ pqSub[p] # <<>>}

\* a round over at least two ready producers, one of which had several
\* tasks queued, has been served completely
C6_Witness ==
    /\ Len(pqRound.snap) >= 2
    /\ Len(pqRound.served) = Len(pqRound.snap)
    /\ pqRound.flood

\* =========================================================================
\*  Claims: pipeline nodes
\* =========================================================================
Accepted(i) == pushPc[i] = "accepted"
InQueue(i) == \E k \in 1..Len(m_work_queue) : m_work_queue[k].id = i
HeldByWorker(i) == \E w \in NodeWorkers : nodeMsg[w].id = i

\* C7 (as claimed): every message pushed into a node is sent to the sink
\* exactly once, or is still inside the node (queued or held by a worker);
\* no node drops a message, so no message leaves a node any other way.
C7_NoSilentLoss ==
    \A i \in MsgIds :
        Accepted(i) =>
            /\ Len(sink[i]) <= 1
            /\ (InQueue(i) \/ HeldByWorker(i) \/ Len(sink[i]) = 1)

\* a message of a variant the node does not consume, taken into the queue
PassThrough(i) == Accepted(i) /\ ~Consumes(msgSent[i].kind)

\* C8: a message whose variant the node does not consume is sent to the sink
\* exactly once, unmodified, and the step that forwards it changes none of
\* the node's counters.
C8_PassThroughUnchanged ==
    /\ [](\A i \in MsgIds :
            PassThrough(i) =>
                /\ Len(sink[i]) <= 1
                /\ (Len(sink[i]) = 1 => sink[i][1] = msgSent[i])
                /\ (~InQueue(i) /\ ~HeldByWorker(i) => Len(sink[i]) = 1))
    /\ [][\A w \in NodeWorkers :
            (nodePc[w] = "forward" /\ nodePc'[w] # "forward") =>
                /\ counterVars' = counterVars
                /\ sink' = [sink EXCEPT ![nodeMsg[w].id] = <<msgSent[nodeMsg[w].id]>>]]_vars

\* a message the node does not consume has arrived at the sink as pushed
C8_Witness ==
    \E i \in MsgIds : PassThrough(i) /\ sink[i] = <<msgSent[i]>>

\* C9: the number of queued messages never exceeds the capacity; a push is
\* taken into the queue only while there is room and the queue is not
\* terminated, and it blocks exactly when the queue is full.
C9_QueueBounded ==
    /\ [](Len(m_work_queue) <= QueueCap)
    /\ [][\A i \in MsgIds :
            /\ (pushPc[i] # "accepted" /\ pushPc'[i] = "accepted") =>
                   (Len(m_work_queue) < QueueCap /\ ~queueTerminated
                    /\ Len(m_work_queue') = Len(m_work_queue) + 1)
            /\ (pushPc[i] = "new" /\ pushPc'[i] = "blocked") =>
                   (Len(m_work_queue) = QueueCap /\ ~queueTerminated)]_vars

\* a producer is blocked in push_message on a full queue
C9_Witness ==
    \E i \in MsgIds : pushPc[i] = "blocked" /\ Len(m_work_queue) = QueueCap

\* C10: after terminate no push is taken into the queue; a worker leaves its
\* loop only from get_input_message, and only when the queue is terminated
\* and empty, so the messages queued before terminate are all received: once
\* the workers are joined none of them is left in the node.
C10_TerminateDrains ==
    /\ [](\A w \in NodeWorkers :
            nodePc[w] = "exited" => (queueTerminated /\ m_work_queue = <<>>))
    /\ [](\A i \in MsgIds :
            pushPc[i] = "rejected" =>
                (~InQueue(i) /\ ~HeldByWorker(i) /\ sink[i] = <<>>))
    /\ [](termPc = "joined" =>
            \A i \in MsgIds : Accepted(i) => (~InQueue(i) /\ ~HeldByWorker(i)))
    /\ [][/\ queueTerminated =>
                /\ Len(m_work_queue') <= Len(m_work_queue)
                /\ \A i \in MsgIds : pushPc'[i] = "accepted" => pushPc[i] = "accepted"
          /\ \A w \in NodeWorkers :
                (nodePc[w] # "exited" /\ nodePc'[w] = "exited") =>
                    (nodePc[w] = "get" /\ queueTerminated /\ m_work_queue = <<>>)]_vars

\* after terminate a push was rejected, a message queued before it reached
\* the sink, and a worker has left its loop
C10_Witness ==
    /\ queueTerminated
    /\ \E i \in MsgIds : pushPc[i] = "rejected"
    /\ \E i \in MsgIds : Accepted(i) /\ sink[i] # <<>>
    /\ \E w \in NodeWorkers : nodePc[w] = "exited"

\* =========================================================================
\*  Claims: node lifecycle (terminate_impl, restart)
\* =========================================================================
\* C11 (as claimed): terminate_impl lets the workers drain the input queue,
\* joins them and then calls terminate on the downstream sink: once
\* terminate_impl has completed the downstream sink has been terminated, and
\* the sink is terminated only when the node holds no unprocessed message.
C11_TerminatePropagates ==
    /\ (termPc = "joined" => sinkTerminated)
    /\ (sinkTerminated =>
            /\ m_work_queue = <<>>
            /\ \A w \in NodeWorkers : nodeMsg[w] = NoMsg)

\* C12: after a completed terminate_impl (queue terminated, workers joined,
\* m_workers empty) restart re-arms the input queue and start_threads leaves
\* exactly the configured number of workers, all of them running; a read
\* whose push is taken after a restart is eventually sent to the sink.
C12_RestartRearms ==
    /\ [][/\ (termPc = "log" /\ termPc' = "joined") =>
                (queueTerminated /\ m_workers = 0
                 /\ \A w \in NodeWorkers : nodePc[w] = "exited")
          /\ (termPc = "joined" /\ termPc' = "restarting") => ~queueTerminated'
          /\ (termPc = "restarting" /\ termPc' = "idle") =>
                /\ m_workers' = NumNodeWorkers
                /\ ~queueTerminated'
                /\ \A w \in NodeWorkers : nodePc'[w] = "get"]_vars
    /\ \A i \in MsgIds :
          pushAfterRestart[i] ~> (Len(sink[i]) = 1 /\ sink[i][1].id = i)

\* a read pushed after a restart has been sent to the sink by one of the
\* workers that restart spawned
C12_Witness ==
    /\ restarted
    /\ m_workers = NumNodeWorkers
    /\ \E i \in MsgIds :
          /\ pushAfterRestart[i]
          /\ msgSent[i].kind = "SimplexRead"
          /\ Len(sink[i]) = 1

\* =========================================================================
\*  Claims: PolyACalculatorNode
\* =========================================================================
\* a read pushed into a PolyACalculatorNode whose client context holds no
\* PolyTailCalculator
NoCalcRead(i) ==
    /\ nodeKind = "PolyACalculatorNode"
    /\ Accepted(i)
    /\ msgSent[i].kind = "SimplexRead"
    /\ ~msgSent[i].calc

\* C19: a read whose client context holds no PolyTailCalculator is sent to
\* the sink once, with rna_poly_tail_length as it was pushed; the node
\* increments num_not_called by exactly one for it and changes neither
\* num_called nor total_tail_lengths_called.
C19_NoCalculatorForwards ==
    /\ [](\A i \in MsgIds :
            NoCalcRead(i) =>
                /\ Len(sink[i]) <= 1
                /\ (Len(sink[i]) = 1 => sink[i][1] = msgSent[i])
                /\ (~InQueue(i) /\ ~HeldByWorker(i) => Len(sink[i]) = 1))
    /\ [](\A w \in NodeWorkers :
            /\ nodePc[w] \in {"nocalc_send", "nocalc_count"} =>
                  (nodeMsg[w].kind = "SimplexRead" /\ ~nodeMsg[w].calc)
            /\ (nodeKind = "PolyACalculatorNode" /\ nodePc[w] \in {"calc", "send"}) =>
                  nodeMsg[w].calc)
    /\ [][\A w \in NodeWorkers :
            /\ (nodePc[w] = "nocalc_send" /\ nodePc'[w] # "nocalc_send") =>
                  /\ nodePc'[w] = "nocalc_count"
                  /\ sink' = [sink EXCEPT ![nodeMsg[w].id] = <<msgSent[nodeMsg[w].id]>>]
                  /\ counterVars' = counterVars
            /\ (nodePc[w] = "nocalc_count" /\ nodePc'[w] # "nocalc_count") =>
                  /\ num_not_called' = num_not_called + 1
                  /\ num_called' = num_called
                  /\ total_tail_lengths_called' = total_tail_lengths_called
                  /\ sink' = sink]_vars

\* a read without calculator has been sent on as pushed and counted once
C19_Witness ==
    /\ \E i \in MsgIds :
          NoCalcRead(i) /\ ~HeldByWorker(i) /\ sink[i] = <<msgSent[i]>>
    /\ num_not_called = 1
    /\ num_called = 0
    /\ total_tail_lengths_called = 0

\* C20: for a read with a calculator, the step that evaluates the
\* calculator's results sets the tail length to n and increments num_called
\* (adding n to total_tail_lengths_called) exactly when signal_anchor >= 0
\* and 0 < n < max_tail_length, n including the split tail's bases; in every
\* other case the tail length stays unset and num_not_called is incremented.
\* The read is then sent to the sink as the step left it.
C20_TailRecordedIffInRange ==
    [][\A w \in NodeWorkers :
        /\ (nodeKind = "PolyACalculatorNode" /\ nodePc[w] = "calc"
                /\ nodePc'[w] # "calc") =>
              LET anchor == calcLocals'[w].signal_anchor
                  n == calcLocals'[w].num_bases
              IN  /\ nodePc'[w] = "send"
                  /\ nodeMsg[w].tail = NoTail
                  /\ IF anchor >= 0 /\ 0 < n /\ n < MaxTailLength
                     THEN /\ nodeMsg'[w] = [nodeMsg[w] EXCEPT !.tail = n]
                          /\ num_called' = num_called + 1
                          /\ total_tail_lengths_called' = total_tail_lengths_called + n
                          /\ num_not_called' = num_not_called
                     ELSE /\ nodeMsg'[w] = nodeMsg[w]
                          /\ num_not_called' = num_not_called + 1
                          /\ num_called' = num_called
                          /\ total_tail_lengths_called' = total_tail_lengths_called
        /\ (nodeKind = "PolyACalculatorNode" /\ nodePc[w] = "send"
                /\ nodePc'[w] # "send") =>
              /\ sink' = [sink EXCEPT ![nodeMsg[w].id] = <<nodeMsg[w]>>]
              /\ counterVars' = counterVars]_vars

\* one worker has recorded the longest tail that is in range, another has
\* left a read without tail length because the tail was too long
C20_Witness ==
    /\ nodeKind = "PolyACalculatorNode"
    /\ \E w1, w2 \in NodeWorkers :
          /\ nodePc[w1] = "send"
          /\ calcLocals[w1].signal_anchor >= 0
          /\ calcLocals[w1].num_bases = MaxTailLength - 1
          /\ nodeMsg[w1].tail = MaxTailLength - 1
          /\ nodePc[w2] = "send"
          /\ calcLocals[w2].signal_anchor >= 0
          /\ calcLocals[w2].num_bases >= MaxTailLength
          /\ nodeMsg[w2].tail = NoTail
    /\ num_called = 1
    /\ num_not_called = 1

\* =========================================================================
\*  Claims: HtsFile
\* =========================================================================
\* the number of times a record occurs in a sequence of records
Count(record, recs) == Cardinality({k \in 1..Len(recs) : recs[k] = record})
SameMultiset(a, b) ==
    /\ Len(a) = Len(b)
    /\ \A k \in 1..Len(a) : Count(a[k], a) = Count(a[k], b)
\* the first finalise call has returned having renamed or merged the temp
\* files of a sorted-BAM output
SortedFinaliseSucceeded ==
    ~m_finalise_is_noop /\ finalisePath \in {"renamed", "merged"}
TempFilesOnDisk == {n \in FileNames \ {OutputFile} : disk[n].exists}

\* C13: in sorted-BAM mode, once finalise has succeeded the output file holds
\* every written record exactly once: the records of the output file and the
\* records passed to write are the same multiset.
C13_EveryRecordOnce ==
    SortedFinaliseSucceeded =>
        /\ disk[OutputFile].exists
        /\ SameMultiset(disk[OutputFile].records, written)
        /\ \A k \in 1..Len(written) : Count(written[k], disk[OutputFile].records) = 1

\* several temp files, one of them with more than one record, have been
\* merged, and two of the records have the same sorting key
C13_Witness ==
    /\ SortedFinaliseSucceeded
    /\ finalisePath = "merged"
    /\ Len(written) = MaxWrites
    /\ Len(m_temp_files) \in 2..(MaxWrites - 1)
    /\ \E j, k \in 1..Len(written) :
          /\ j # k
          /\ calculate_sorting_key(written[j]) = calculate_sorting_key(written[k])
          /\ written[j].l_data = written[k].l_data

IsSortedByKey(recs) ==
    \A k \in 1..(Len(recs) - 1) :
        calculate_sorting_key(recs[k]) <= calculate_sorting_key(recs[k + 1])

\* C14: in sorted-BAM mode, once finalise has succeeded the records of the
\* output file are in non-decreasing order of the sorting key, whatever the
\* order of the write calls and the number of temp files.
C14_OutputSortedByKey ==
    SortedFinaliseSucceeded =>
        /\ disk[OutputFile].exists
        /\ Len(disk[OutputFile].records) = Len(written)
        /\ IsSortedByKey(disk[OutputFile].records)

\* records written in decreasing key order came out of a merge of several
\* temp files
C14_Witness ==
    /\ SortedFinaliseSucceeded
    /\ finalisePath = "merged"
    /\ Len(m_temp_files) >= 2
    /\ Len(written) = MaxWrites
    /\ \A k \in 1..(Len(written) - 1) :
          calculate_sorting_key(written[k]) >= calculate_sorting_key(written[k + 1])
    /\ calculate_sorting_key(written[1]) > calculate_sorting_key(written[Len(written)])

\* C15: a finalise call on an object that is already finalised changes
\* neither the object nor any file: nothing is flushed, merged, renamed or
\* removed, and no index is built.
C15_SecondFinaliseNoOp ==
    [][(m_finalised /\ finaliseCalls' = finaliseCalls + 1) =>
          /\ htsObject' = htsObject
          /\ disk' = disk
          /\ indexBuilt' = indexBuilt
          /\ callerSees' = "returned"]_vars

\* finalise has been called again after a merge that failed and left its
\* temp files on disk
C15_Witness ==
    /\ finaliseCalls = 2
    /\ finalisePath = "second_call"
    /\ ~m_finalise_is_noop
    /\ Len(m_temp_files) >= 2
    /\ TempFilesOnDisk = SeqToSet(m_temp_files)

\* C16: when merge_temp_files fails, at whichever step, finalise returns with
\* every temp file still on disk, with the records it had.
C16_TempFilesKeptOnFailure ==
    /\ [](finalisePath = "merge_failed" =>
            /\ Len(m_temp_files) >= 2
            /\ \A k \in 1..Len(m_temp_files) :
                  /\ disk[m_temp_files[k]].exists
                  /\ disk[m_temp_files[k]].records # <<>>)
    /\ [][finalisePath' = "merge_failed" =>
            \A n \in TempFilesOnDisk : disk'[n] = disk[n]]_vars

\* a merge has failed after it wrote a part of the records to the output
\* file, and the temp files are all there
C16_Witness ==
    /\ finalisePath = "merge_failed"
    /\ disk[OutputFile].exists
    /\ Len(disk[OutputFile].records) \in 1..(Len(written) - 1)
    /\ TempFilesOnDisk = SeqToSet(m_temp_files)
    /\ Len(m_temp_files) >= 2

\* C17 (as claimed): when the merge of the temp files fails, the finalise
\* call ends in a way that tells its caller of the failure.
C17_MergeFailureSurfaced ==
    finalisePath = "merge_failed" => callerSees = "exception"

\* C18: after a successful finalise in sorted mode no temp file is left on
\* disk: the only temp file has become the output file, several temp files
\* have been removed after the merge, and every name still in m_temp_files
\* is the name of a file that is gone.
C18_NoTempFileLeft ==
    /\ [](SortedFinaliseSucceeded =>
            /\ TempFilesOnDisk = {}
            /\ disk[OutputFile].exists
            /\ \A k \in 1..Len(m_temp_files) : ~disk[m_temp_files[k]].exists
            /\ (finalisePath = "renamed" => m_temp_files = <<>>))
    /\ [][/\ finalisePath' = "renamed" =>
                /\ m_temp_files' = <<>>
                /\ Cardinality(TempFilesOnDisk) <= 1
                /\ \A n \in TempFilesOnDisk : disk'[OutputFile] = disk[n]
          /\ finalisePath' = "merged" =>
                /\ Len(m_temp_files') >= 2
                /\ TempFilesOnDisk \subseteq SeqToSet(m_temp_files')]_vars

\* several temp files have been merged and removed; m_temp_files still
\* holds their names
C18_Witness ==
    /\ SortedFinaliseSucceeded
    /\ finalisePath = "merged"
    /\ TempFilesOnDisk = {}
    /\ Len(written) = MaxWrites
    /\ Len(m_temp_files) = MaxWrites

Holders(t) == {w \in Workers : workerTask[w] = t}

C22_SampleStatsRaceFree ==
    /\ \A w \in NodeWorkers : ~(statsPc = "reading" /\ recPc[w] = "writing")
    /\ ~statsRaced
    /\ statsPc # "faulted"

\* =========================================================================
\*  Claims: HtsFile, flushing the buffer
\* =========================================================================
\* the records in the buffer, in the order of the buffer map
BufferedRecords == [k \in 1..Len(m_buffer_map) |-> m_bam_buffer[m_buffer_map[k].offset]]
\* a write call whose record did not fit flushed the buffer and returned
FlushOnWrite ==
    /\ m_num_records' = m_num_records + 1
    /\ Len(m_temp_files') = Len(m_temp_files) + 1
    /\ callerSees' = "returned"
\* a first finalise call flushed a buffer that was not empty, and the temp
\* file it wrote is still there to see: the merge that followed failed
FlushOnFinalise ==
    /\ finaliseCalls' = finaliseCalls + 1
    /\ finalisePath' = "merge_failed"
    /\ m_current_buffer_offset > 0
\* the temp file with index Len(m_temp_files) is new and holds recs, and
\* the files named in kept are as they were
NewTempFileHolds(recs, kept) ==
    LET k == Len(m_temp_files) IN
    /\ m_temp_files' = Append(m_temp_files, TempName(k))
    /\ \A j \in 1..k : m_temp_files[j] # TempName(k)
    /\ ~disk[TempName(k)].exists
    /\ disk'[TempName(k)].exists
    /\ SameMultiset(disk'[TempName(k)].records, recs)
    /\ IsSortedByKey(disk'[TempName(k)].records)
    /\ \A n \in kept \ {TempName(k)} : disk'[n] = disk[n]
    /\ m_current_buffer_offset' = 0
    /\ m_buffer_map' = <<>>

\* C30: a flush that writes its file creates the temp file whose index is
\* the number of temp files created before, holding the buffered records
\* and the overflow record, if there is one, in non-decreasing order of the
\* sorting key; the buffer is empty afterwards.
C30_FlushWritesBufferSorted ==
    [][/\ FlushOnWrite =>
            NewTempFileHolds(Append(BufferedRecords, written'[Len(written')]),
                             FileNames)
       /\ FlushOnFinalise =>
            NewTempFileHolds(BufferedRecords, FileNames \ {OutputFile})]_vars

\* a second temp file was written by a write call: it holds two buffered
\* records and the record that did not fit, which were not written in the
\* order of their keys
C30_Witness ==
    /\ ~m_finalised
    /\ callerSees = "returned"
    /\ Len(m_temp_files) = 2
    /\ m_current_buffer_offset = 0
    /\ m_buffer_map = <<>>
    /\ Len(disk[TempName(1)].records) = 3
    /\ ~IsSortedByKey(SubSeq(written, 2, 4))

\* =========================================================================
\*  Claims: ModBaseCallerNode
\* =========================================================================
\* C21: a read without a first called chunk or without moves reaches the
\* sink as it was pushed, base_mod_probs and base_mod_info untouched, the
\* model runner is not called on it and the worker does not fault on it.
C21_ForwardsReadsLackingChunks ==
    /\ modPc = "faulted" => HasPrerequisites(modRead)
    /\ modPc = "run" => HasPrerequisites(modRead)
    /\ \A k \in 1..Len(modSink) :
          ~HasPrerequisites(modSink[k]) =>
             /\ modSink[k].base_mod_probs = "none"
             /\ modSink[k].base_mod_info = "none"
             /\ modSink[k].id \notin runnerCalls

\* C29: the sink is terminated once at most, in a step of the worker taken
\* with m_terminate set, the queue empty and no read in the worker's hands,
\* every read pushed to the node being in the sink already; after that step
\* the worker has exited and the sink receives nothing more; the destructor
\* returns only with the worker exited and the sink terminated once.
C29_SinkTerminatedOnceAtEnd ==
    /\ [](sinkTerminateCalls <= 1)
    /\ [](sinkTerminateCalls = 1 =>
            /\ modPc = "exited"
            /\ m_terminate
            /\ m_reads = <<>>
            /\ Len(modSink) = modPushed
            /\ \A i \in 1..modPushed : \E k \in 1..Len(modSink) : modSink[k].id = i)
    /\ [](dtorPc = "returned" => modPc = "exited" /\ sinkTerminateCalls = 1)
    /\ [][sinkTerminateCalls' # sinkTerminateCalls =>
            /\ m_terminate
            /\ m_reads = <<>>
            /\ modRead = NoRead
            /\ modPc = "wait" /\ modPc' = "exited"
            /\ modSink' = modSink]_vars

\* the destructor has returned; reads were still queued when it set the
\* flag, and all of them are in the sink
C29_Witness ==
    /\ dtorPc = "returned"
    /\ sinkTerminateCalls = 1
    /\ modPushed = MaxModReads
    /\ Len(modSink) = MaxModReads

\* =========================================================================
\*  Claims: create_basecall_runners
\* =========================================================================
\* the call was made in a CUDA build for a device string other than "cpu"
\* and has returned
GpuPlanReturned ==
    /\ planPc = "done"
    /\ build = "cuda"
    /\ planArgs.device # "cpu"
    /\ planResult.outcome = "returned"

\* C23: on the GPU path there is one caller per parsed device, in the order
\* of the devices; the returned device count is the number of parsed
\* devices; there are num_devices * num_gpu_runners runners, and runners
\* j*num_gpu_runners .. (j+1)*num_gpu_runners-1 hold the caller of device j.
C23_RunnersPerDevice ==
    GpuPlanReturned =>
        LET r == planResult
            n == planArgs.num_gpu_runners
        IN  /\ r.num_devices = Len(planArgs.parsed.devices)
            /\ Len(r.callers) = r.num_devices
            /\ \A j \in 1..r.num_devices :
                  r.callers[j].device = planArgs.parsed.devices[j]
            /\ Len(r.runners) = r.num_devices * n
            /\ \A k \in 1..Len(r.runners) : r.runners[k].caller \in 1..r.num_devices
            /\ \A j \in 0..(r.num_devices - 1) :
                  \A k \in (j * n)..((j + 1) * n - 1) : r.runners[k + 1].caller = j + 1

\* several devices with several runners each
C23_Witness ==
    /\ GpuPlanReturned
    /\ planResult.num_devices = MaxDevices
    /\ planArgs.num_gpu_runners = MaxRunners
    /\ Len(planResult.runners) = MaxDevices * MaxRunners

\* C24: when the runners report a chunk size other than the one requested,
\* the calling code continues with the chunk size the runners report.
C24_AdjustedChunkSizeReturned ==
    (/\ planPc = "done"
     /\ planResult.outcome = "returned"
     /\ planResult.runners # <<>>)
        => planChunkSize = planResult.runners[1].chunk_size

\* the device string names no device the build supports, or the GPU device
\* list is empty
NoUsableDevice ==
    /\ planArgs.device # "cpu"
    /\ \/ build = "cpu_only"
       \/ build = "metal" /\ planArgs.device # "metal"
       \/ build = "cuda" /\ (planArgs.parsed.threw \/ planArgs.parsed.devices = <<>>)

\* C25: for an unknown or unsupported device string and for a GPU device
\* list without devices the call ends with an error and returns no runners;
\* it neither returns nor faults on an empty runner set.
C25_FailsWithoutDevice ==
    (planPc = "done" /\ NoUsableDevice) =>
        /\ planResult.outcome = "threw"
        /\ planResult.runners = <<>>

\* =========================================================================
\*  Claims: extract_windows
\* =========================================================================
\* extract_windows has run on an alignment it does not skip
AlignmentProcessed == winPc = "done" /\ ~SkipsAlignment(alignment, m_window_size)
\* the target range of the k-th window pushed: from its tstart to the end
\* of its slot, or to the end of the alignment if that comes first
WindowTargetStart(k) == windows[k].tstart
WindowTargetEnd(k) ==
    LET slot_end == (windows[k].slot + 1) * m_window_size
    IN  IF slot_end < alignment.tend THEN slot_end ELSE alignment.tend
\* each window is a non-empty range and starts where the one before ended
WindowsContiguous ==
    /\ \A k \in 1..Len(windows) : WindowTargetStart(k) < WindowTargetEnd(k)
    /\ \A k \in 1..(Len(windows) - 1) : WindowTargetEnd(k) = WindowTargetStart(k + 1)
\* the alignment starts at a window boundary or within the zeroth-window threshold
StartsAWindow ==
    \/ alignment.tstart % m_window_size = 0
    \/ alignment.tstart < zeroth_window_thresh(m_window_size)
\* the alignment ends at a window boundary, or beyond the nth-window threshold
EndsAWindow ==
    \/ alignment.tend % m_window_size = 0
    \/ alignment.tend > alignment.tlen - zeroth_window_thresh(m_window_size)

NonDecreasing(seq) == \A k \in 1..(Len(seq) - 1) : seq[k] <= seq[k + 1]

C31_ProgressFromZeroToHundred ==
    finaliseCalls > 0 =>
        /\ Len(progress) >= 2
        /\ progress[1] = 0
        /\ progress[Len(progress)] = 100
        /\ NonDecreasing(progress)

\* a merge of three records of a mapped file that succeeded: the callback
\* has received the start of merging, a value per record, the start of
\* indexing
C31_Witness ==
    /\ finalisePath = "merged"
    /\ Len(progress) = 7
    /\ progress[2] = percent_start_merging
    /\ progress[3] < progress[5]
    /\ progress[6] = percent_start_indexing

\* =========================================================================
\*  C32: for records with tid >= 0 and 0 <= pos < 2^32 the sorting key is
\*  strictly monotone in the lexicographic order of (tid, pos): the key of a
\*  is below the key of b exactly if (tid, pos) of a is below that of b, and
\*  the keys are equal exactly if both fields are equal
\* =========================================================================
LexLess(a, b) == a.tid < b.tid \/ (a.tid = b.tid /\ a.pos < b.pos)

C32_KeyOrderIsTidPosOrder ==
    keyPc = "keys" =>
        /\ (keys[1] < keys[2]) <=> LexLess(keyRecords[1], keyRecords[2])
        /\ (keys[1] = keys[2]) <=> (/\ keyRecords[1].tid = keyRecords[2].tid
                                    /\ keyRecords[1].pos = keyRecords[2].pos)

\* the keys of a record with the larger tid and the smallest position and of
\* a record with a smaller tid and the largest position have been computed
C32_Witness ==
    /\ keyPc = "keys"
    /\ keyRecords[1].tid > keyRecords[2].tid
    /\ keyRecords[1].pos = 0
    /\ keyRecords[2].pos = Pow2(HalfBits) - 1
    /\ keys[1] > keys[2]

\* =========================================================================
\*  C33: the sort is stable. Records of equal sorting key are in every temp
\*  file and in the final output in the order in which they were written:
\*  within a temp file equal keys keep their insertion order, the overflow
\*  record last among its equals, and the merge takes equal keys from the
\*  lowest file index first
\* =========================================================================
\* records of equal key are in write order (the id of a record is the number
\* of its write call)
EqualKeysInWriteOrder(recs) ==
    \A i, j \in 1..Len(recs) :
        (i < j /\ calculate_sorting_key(recs[i]) = calculate_sorting_key(recs[j]))
            => recs[i].id < recs[j].id

C33_SortIsStable ==
    \A n \in FileNames : disk[n].exists => EqualKeysInWriteOrder(disk[n].records)

\* four records of one key have been merged from two temp files: the first
\* held two buffered records and the overflow record, the second the record
\* written after them
C33_Witness ==
    /\ finalisePath = "merged"
    /\ Len(disk[OutputFile].records) = 4
    /\ \A k \in 1..4 : /\ disk[OutputFile].records[k].tid = 0
                       /\ disk[OutputFile].records[k].pos = 1
                       /\ disk[OutputFile].records[k].id = k

\* =========================================================================
\*  C34: every temp file that flush_temp_file has created holds at least one
\*  record, and a flush with an empty buffer and no overflow record creates
\*  no file; so the temp files that merge_temp_files opens after any
\*  sequence of writes and a finalise all have a first record
\* =========================================================================
TempFilesOf(dsk) == {n \in FileNames \ {OutputFile} : dsk[n].exists}

\* a flush that threw has left its temp file open
FlushThrew == ~m_finalise_is_noop /\ m_file # NoName

\* the temp files left by flushes that have run to their end
TempFilesHaveRecords ==
    ~FlushThrew =>
        \A n \in TempFilesOnDisk : Len(disk[n].records) >= 1

\* a finalise call that finds the buffer empty leaves no new temp file
EmptyFlushCreatesNoFile ==
    (/\ finaliseCalls' = finaliseCalls + 1
     /\ m_current_buffer_offset = 0)
        => TempFilesOf(disk') \subseteq TempFilesOnDisk

BufferedOffsets == DOMAIN m_bam_buffer
RangeEnd(off) == off + SizeofBam1 + m_bam_buffer[off].l_data

RangesInsideBuffer ==
    \A off \in BufferedOffsets :
        /\ off >= 0
        /\ RangeEnd(off) <= m_current_buffer_offset
        /\ RangeEnd(off) <= BufSize

RangesDisjoint ==
    \A a, b \in BufferedOffsets : a < b => RangeEnd(a) <= b

OffsetsAligned == \A off \in BufferedOffsets : off % BufferAlign = 0

OneMapEntryPerRecord ==
    /\ Len(m_buffer_map) = Cardinality(BufferedOffsets)
    /\ \A off \in BufferedOffsets :
          \E k \in 1..Len(m_buffer_map) :
              /\ m_buffer_map[k].offset = off
              /\ m_buffer_map[k].key = calculate_sorting_key(m_bam_buffer[off])

IsRead(i) == msgSent[i].kind = "SimplexRead"
\* the reads the workers have taken from the queue
ReadsReceived == {i \in MsgIds : IsRead(i) /\ Accepted(i) /\ ~InQueue(i)}
\* the reads whose pass through the loop body has reached its counter: the
\* worker that holds the read is about to send it, or the read has been
\* sent and the worker is through with it
ReadsCounted ==
    {i \in ReadsReceived :
        \/ \E w \in NodeWorkers : nodeMsg[w].id = i /\ nodePc[w] = "send"
        \/ ~HeldByWorker(i)}
\* the reads that were sent on with a tail length
ReadsWithTail == {i \in MsgIds : IsRead(i) /\ sink[i] # <<>> /\ sink[i][1].tail # NoTail}

RECURSIVE SumOfTails(_)
SumOfTails(S) ==
    IF S = {} THEN 0
    ELSE LET i == CHOOSE x \in S : TRUE
         IN  sink[i][1].tail + SumOfTails(S \ {i})

WorkersIdle == \A w \in NodeWorkers : nodePc[w] \in {"get", "exited"}

\* one counter, once, per read
OneCounterPerRead ==
    nodeKind = "PolyACalculatorNode" =>
        num_called + num_not_called = Cardinality(ReadsCounted)

CountersMatchReads ==
    (nodeKind = "PolyACalculatorNode" /\ WorkersIdle) =>
        /\ num_called + num_not_called = Cardinality(ReadsReceived)
        /\ num_called = Cardinality(ReadsWithTail)
        /\ total_tail_lengths_called = SumOfTails(ReadsWithTail)

\* a worker step moves at most one of the two counters, by one
OneCounterPerStep ==
    nodeKind = "PolyACalculatorNode" =>
        \/ num_called' = num_called /\ num_not_called' = num_not_called
        \/ num_called' = num_called + 1 /\ num_not_called' = num_not_called
        \/ num_called' = num_called /\ num_not_called' = num_not_called + 1

C35_EachReadCountedOnce ==
    /\ []OneCounterPerRead
    /\ []CountersMatchReads
    /\ [][OneCounterPerStep]_vars

\* the workers are idle after a read with a recorded tail, and a read
\* without, have both been sent on
C35_Witness ==
    /\ nodeKind = "PolyACalculatorNode"
    /\ WorkersIdle
    /\ Cardinality(ReadsReceived) = 2
    /\ num_called = 1
    /\ num_not_called = 1
    /\ total_tail_lengths_called = MaxTailLength - 1

\* =========================================================================
\*  C36: for every read that PolyACalculatorNode forwards, the counter update
\*  for the read happens before the read is sent to the sink, so at every
\*  moment num_called + num_not_called is at least the number of reads that
\*  the sink has received
\* =========================================================================
ReadsDelivered == {i \in MsgIds : IsRead(i) /\ sink[i] # <<>>}

C36_CountedBeforeSent ==
    nodeKind = "PolyACalculatorNode" =>
        num_called + num_not_called >= Cardinality(ReadsDelivered)

\* =========================================================================
\*  C37: PolyACalculator::terminate_impl completes normally after any number
\*  of processed reads, zero included: it terminates the input queue, joins
\*  every worker and leaves m_workers empty, without an arithmetic fault
\*  while it computes its summary
\* =========================================================================
C37_TerminateCompletesWithoutFault ==
    nodeKind = "PolyACalculator" =>
        /\ termPc # "faulted"
        /\ termPc \in {"log", "joined"} =>
              /\ queueTerminated
              /\ m_workers = 0
              /\ \A w \in NodeWorkers : nodePc[w] = "exited"

\* =========================================================================
\*  C38: of the windows that extract_windows emits for one alignment, each
\*  window's cigar bracket starts where the bracket of the window before it
\*  ended: its (cigar_start_idx, cigar_start_offset) is the previous
\*  window's (cigar_end_idx, cigar_end_offset), also when a single cigar
\*  operation spans more than two windows
\* =========================================================================
C38_CigarBracketsContinue ==
    AlignmentProcessed =>
        \A k \in 1..(Len(windows) - 1) :
            /\ windows[k + 1].cigar_start_idx = windows[k].cigar_end_idx
            /\ windows[k + 1].cigar_start_offset = windows[k].cigar_end_offset

\* =========================================================================
\*  C39: during extract_features every indexed access into a window's
\*  overlap list and into the per-window max-insertion array refers to an
\*  existing element, for windows with any number of surviving overlaps
\*  (0 and 1 included) and for overlaps whose first cigar operation in the
\*  window is an insertion at target offset 0
\* =========================================================================
C39_FeatureAccessesInBounds == \A x \in featAccesses : InBounds(x)

====
